---------------------------- MODULE Spec2Model ----------------------------
(***************************************************************************)
(* Multi-channel notification dispatch: the three channel services         *)
(* (EmailService, SMSService, PushService) and the mock providers they     *)
(* delegate to.  Go strings are TLA+ strings (Len is the byte length),     *)
(* a Go map is a TLA+ function, a slice is a sequence.                     *)
(*                                                                         *)
(* A process constructs one channel service with its provider; `channel`   *)
(* records which one.  The caller is sequential: it calls one operation,   *)
(* which runs the whole handler as one action and leaves its inputs, its   *)
(* result and the provider state it started from in `last`; the caller     *)
(* takes the result (Return) and is free to call again.                    *)
(***************************************************************************)
EXTENDS Integers, Sequences, FiniteSets, TLC

VARIABLES channel,  \* which service this process constructed
          email,    \* MockEmailProvider: healthy, sentEmails, templates
          sms,      \* MockSMSProvider: healthy, sentSMS, templates
          push,     \* MockPushProvider: healthy, sentPushes, templates, deviceTokens
          now,      \* the wall clock, in ticks
          sends,    \* successful provider sends since construction or the last Clear
          last      \* the call that has just returned: inputs, result, pre-state

vars == <<channel, email, sms, push, now, sends, last>>

(***************************************************************************)
(* Bounds of the model.                                                    *)
(***************************************************************************)
\* sends are explored from audit logs shorter than this
MaxSent == 2
\* most recipients (requests) in one bulk call
MaxBulk == 2
\* last tick of the clock
MaxTime == 1

(***************************************************************************)
(* context.Context: the number of simulated-latency waits that still       *)
(* elapse before the context is cancelled.  0 is a context that is already *)
(* done when the next select is reached; NoCancel (more waits than any     *)
(* operation makes) is a context that is never cancelled.                  *)
(***************************************************************************)
NoCancel == 2 * MaxBulk + 1

\* select: case <-ctx.Done()
CtxDone(ctx) == ctx = 0

\* select: case <-time.After(d), the context after the wait elapsed
AfterWait(ctx) == IF ctx = NoCancel THEN NoCancel ELSE ctx - 1

(***************************************************************************)
(* String helpers of the Go standard library.                              *)
(***************************************************************************)
RECURSIVE ReplaceAll(_, _, _)
\* strings.ReplaceAll(s, old, new) for a non-empty old: non-overlapping, left to right
ReplaceAll(s, old, new) ==
    IF Len(s) < Len(old) THEN s
    ELSE IF SubSeq(s, 1, Len(old)) = old
         THEN new \o ReplaceAll(SubSeq(s, Len(old) + 1, Len(s)), old, new)
         ELSE SubSeq(s, 1, 1) \o ReplaceAll(SubSeq(s, 2, Len(s)), old, new)

\* every byte of s is in the class cls
AllIn(s, cls) == \A i \in 1..Len(s) : SubSeq(s, i, i) \in cls

LowerLetters == {"a","b","c","d","e","f","g","h","i","j","k","l","m",
                 "n","o","p","q","r","s","t","u","v","w","x","y","z"}
UpperLetters == {"A","B","C","D","E","F","G","H","I","J","K","L","M",
                 "N","O","P","Q","R","S","T","U","V","W","X","Y","Z"}
Letters == LowerLetters \cup UpperLetters
Digits == {"0","1","2","3","4","5","6","7","8","9"}

\* fmt.Sprintf("%d", n) for the small n >= 0 the model prints
Itoa(n) == ToString(n)

(***************************************************************************)
(* pkg/errors: the structured error.                                       *)
(***************************************************************************)
ErrorCodeNotFound == "NOT_FOUND"
ErrorCodeTimeout == "TIMEOUT"
ErrorCodeProviderNotFound == "PROVIDER_NOT_FOUND"
ErrorCodeProviderUnavailable == "PROVIDER_UNAVAILABLE"
ErrorCodeTemplateNotFound == "TEMPLATE_NOT_FOUND"
ErrorCodeValidationFailed == "VALIDATION_FAILED"

\* a nil error
NilError == [kind |-> "nil"]
IsError(e) == e.kind # "nil"

NewNotificationError(code, message) ==
    [kind |-> "NotificationError", Code |-> code, Message |-> message, Details |-> ""]

NewValidationError(field, message) ==
    [kind |-> "NotificationError", Code |-> ErrorCodeValidationFailed,
     Message |-> "Validation failed for field '" \o field \o "': " \o message,
     Details |-> ""]

NewProviderError(providerName, code, message) ==
    [kind |-> "NotificationError", Code |-> code, Message |-> message,
     Details |-> "Provider: " \o providerName]

\* err.Error(): of a NotificationError, or of an error made by fmt.Errorf
ErrorString(e) ==
    IF e.kind = "NotificationError"
    THEN IF e.Details # "" THEN e.Code \o ": " \o e.Message \o " - " \o e.Details
         ELSE e.Code \o ": " \o e.Message
    ELSE e.text

\* the code a caller can branch on; "" when the error carries none
CodeOf(e) == IF e.kind = "NotificationError" THEN e.Code ELSE ""

(***************************************************************************)
(* models: statuses and the response.                                      *)
(***************************************************************************)
StatusPending == "pending"
StatusSent == "sent"
StatusFailed == "failed"

\* a nil *NotificationResponse
NilResponse == [kind |-> "nil"]
IsResponse(r) == r.kind # "nil"

(***************************************************************************)
(* internal/utils: address validation.                                     *)
(***************************************************************************)
EmailLocalClass == Letters \cup Digits \cup {".", "_", "%", "+", "-"}
EmailDomainClass == Letters \cup Digits \cup {".", "-"}

\* regexp ^[a-zA-Z0-9._%+-]+@[a-zA-Z0-9.-]+\.[a-zA-Z]{2,}$
emailRegexMatch(s) ==
    \E i \in 1..Len(s) :
        /\ SubSeq(s, i, i) = "@"
        /\ i > 1
        /\ AllIn(SubSeq(s, 1, i - 1), EmailLocalClass)
        /\ \E j \in (i + 2)..Len(s) :
              /\ SubSeq(s, j, j) = "."
              /\ AllIn(SubSeq(s, i + 1, j - 1), EmailDomainClass)
              /\ Len(s) - j >= 2
              /\ AllIn(SubSeq(s, j + 1, Len(s)), Letters)

\* utils.ValidateEmailAddress
ValidateEmailAddress(addr) ==
    IF addr = "" THEN NewValidationError("email", "email address is required")
    ELSE IF ~emailRegexMatch(addr)
         THEN NewValidationError("email", "invalid email address format")
         ELSE NilError

(***************************************************************************)
(* Go maps.  A range over a map visits the keys in an order the runtime    *)
(* picks: KeyOrders is every order it can pick.                            *)
(***************************************************************************)
EmptyMap == << >>

KeyOrders(m) ==
    LET n == Cardinality(DOMAIN m)
    IN  {o \in [1..n -> DOMAIN m] : \A i, j \in 1..n : i # j => o[i] # o[j]}

\* A RenderTemplate call ranges over the data once per rendered field, in an
\* order of its own each time: the orders of up to three fields
RenderOrders(m) == {<<a, b, c>> : a \in KeyOrders(m), b \in KeyOrders(m), c \in KeyOrders(m)}

\* mergeTemplateData: global entries first, recipient entries override
mergeTemplateData(global, recipient) == recipient @@ global

RECURSIVE replaceVariablesFrom(_, _, _, _)
replaceVariablesFrom(result, data, order, i) ==
    IF i > Len(order) THEN result
    ELSE replaceVariablesFrom(
             ReplaceAll(result, "{{" \o order[i] \o "}}", data[order[i]]),
             data, order, i + 1)

\* replaceVariables: for key, value := range data { ReplaceAll("{{key}}", value) },
\* the range visiting the keys in the order `order`
replaceVariables(template, data, order) ==
    replaceVariablesFrom(template, data, order, 1)

(***************************************************************************)
(* MockEmailProvider                                                       *)
(***************************************************************************)
DefaultSender == "noreply@notification-service.local"

\* loadDefaultTemplates: the three seeded templates.  Subjects are the
\* source's; of each body the model keeps the lines that carry placeholders.
EmailDefaultTemplates ==
    ("welcome" :>
        [ID |-> "welcome",
         Subject |-> "Welcome to {{service_name}}, {{user_name}}!",
         HTMLBody |-> "<h1>Welcome {{user_name}}!</h1>",
         TextBody |-> "Welcome {{user_name}}!"])
    @@ ("password_reset" :>
        [ID |-> "password_reset",
         Subject |-> "Reset your {{service_name}} password",
         HTMLBody |-> "<p>Hi {{user_name}},</p>",
         TextBody |-> "Hi {{user_name}},"])
    @@ ("notification" :>
        [ID |-> "notification",
         Subject |-> "{{notification_title}}",
         HTMLBody |-> "<h2>{{notification_title}}</h2><p>{{notification_message}}</p>",
         TextBody |-> "{{notification_title}} {{notification_message}}"])

\* NewMockEmailProvider
NewMockEmailProvider ==
    [healthy |-> TRUE, sentEmails |-> << >>, templates |-> EmailDefaultTemplates]

\* the first error of validating every address of a list, or NilError
RECURSIVE firstInvalidAddress(_, _, _)
firstInvalidAddress(addrs, field, i) ==
    IF i > Len(addrs) THEN NilError
    ELSE IF IsError(ValidateEmailAddress(addrs[i]))
         THEN NewValidationError(field, "invalid email address: " \o addrs[i])
         ELSE firstInvalidAddress(addrs, field, i + 1)

\* validateEmailNotification leaving the BCC addresses unchecked
validateEmailNotification_NoBCC(e) ==
    IF Len(e.To) = 0
    THEN NewValidationError("to", "at least one recipient is required")
    ELSE IF IsError(firstInvalidAddress(e.To, "to", 1))
    THEN firstInvalidAddress(e.To, "to", 1)
    ELSE IF IsError(firstInvalidAddress(e.CC, "cc", 1))
    THEN firstInvalidAddress(e.CC, "cc", 1)
    ELSE IF e.From # "" /\ IsError(ValidateEmailAddress(e.From))
    THEN NewValidationError("from", "invalid sender email address")
    ELSE IF e.ReplyTo # "" /\ IsError(ValidateEmailAddress(e.ReplyTo))
    THEN NewValidationError("reply_to", "invalid reply-to email address")
    ELSE IF e.Subject = ""
    THEN NewValidationError("subject", "email subject is required")
    ELSE IF e.HTMLBody = "" /\ e.TextBody = ""
    THEN NewValidationError("body", "email must have either HTML or text body")
    ELSE NilError

\* MockEmailProvider.validateEmailNotification
validateEmailNotification(e) ==
    IF Len(e.To) = 0
    THEN NewValidationError("to", "at least one recipient is required")
    ELSE IF IsError(firstInvalidAddress(e.To, "to", 1))
    THEN firstInvalidAddress(e.To, "to", 1)
    ELSE IF IsError(firstInvalidAddress(e.CC, "cc", 1))
    THEN firstInvalidAddress(e.CC, "cc", 1)
    ELSE IF IsError(firstInvalidAddress(e.BCC, "bcc", 1))
    THEN firstInvalidAddress(e.BCC, "bcc", 1)
    ELSE IF e.From # "" /\ IsError(ValidateEmailAddress(e.From))
    THEN NewValidationError("from", "invalid sender email address")
    ELSE IF e.ReplyTo # "" /\ IsError(ValidateEmailAddress(e.ReplyTo))
    THEN NewValidationError("reply_to", "invalid reply-to email address")
    ELSE IF e.Subject = ""
    THEN NewValidationError("subject", "email subject is required")
    ELSE IF e.HTMLBody = "" /\ e.TextBody = ""
    THEN NewValidationError("body", "email must have either HTML or text body")
    ELSE NilError

\* the result of a provider or service call: the provider afterwards, the
\* context afterwards, the response and the error
Result(p, ctx, resp, err) == [p |-> p, ctx |-> ctx, resp |-> resp, err |-> err]

\* the audit record SendEmail stores
SentEmailRecord(e) ==
    [ID |-> e.ID, To |-> e.To, CC |-> e.CC, BCC |-> e.BCC, From |-> e.From,
     Subject |-> e.Subject, HTMLBody |-> e.HTMLBody, TextBody |-> e.TextBody,
     Status |-> "sent", MessageID |-> "mock-" \o Itoa(e.ID)]

\* SendEmail storing the record before the simulated latency
SendEmail_StoreBeforeWait(p, e, ctx) ==
    IF ~p.healthy
    THEN Result(p, ctx, NilResponse,
                NewProviderError("mock-email", ErrorCodeProviderUnavailable,
                                 "provider is unhealthy"))
    ELSE IF IsError(validateEmailNotification(e))
    THEN Result(p, ctx, NilResponse, validateEmailNotification(e))
    ELSE IF CtxDone(ctx)
    THEN Result([p EXCEPT !.sentEmails = Append(@, SentEmailRecord(e))], ctx, NilResponse,
                NewNotificationError(ErrorCodeTimeout, "email sending timed out"))
    ELSE Result([p EXCEPT !.sentEmails = Append(@, SentEmailRecord(e))],
                AfterWait(ctx),
                [kind |-> "NotificationResponse", ID |-> e.ID, Status |-> StatusSent,
                 Message |-> "Email successfully sent to " \o Itoa(Len(e.To))
                             \o " recipients",
                 ProviderID |-> "mock-" \o Itoa(e.ID), Error |-> ""],
                NilError)

\* MockEmailProvider.SendEmail
MockEmailProvider_SendEmail(p, e, ctx) ==
    IF ~p.healthy
    THEN Result(p, ctx, NilResponse,
                NewProviderError("mock-email", ErrorCodeProviderUnavailable,
                                 "provider is unhealthy"))
    ELSE IF IsError(validateEmailNotification(e))
    THEN Result(p, ctx, NilResponse, validateEmailNotification(e))
    ELSE IF CtxDone(ctx)
    THEN Result(p, ctx, NilResponse,
                NewNotificationError(ErrorCodeTimeout, "email sending timed out"))
    ELSE Result([p EXCEPT !.sentEmails = Append(@, SentEmailRecord(e))],
                AfterWait(ctx),
                [kind |-> "NotificationResponse", ID |-> e.ID, Status |-> StatusSent,
                 Message |-> "Email successfully sent to " \o Itoa(Len(e.To))
                             \o " recipients",
                 ProviderID |-> "mock-" \o Itoa(e.ID), Error |-> ""],
                NilError)

\* MockEmailProvider.convertToEmailNotification
convertToEmailNotification(n) ==
    [ID |-> n.ID, Type |-> n.Type, Recipient |-> n.Recipient, Subject |-> n.Subject,
     Body |-> n.Body, RetryCount |-> n.RetryCount, MaxRetries |-> n.MaxRetries,
     To |-> <<n.Recipient>>, CC |-> << >>, BCC |-> << >>,
     From |-> DefaultSender, ReplyTo |-> "",
     HTMLBody |-> n.Body, TextBody |-> n.Body]

\* MockEmailProvider.Send
MockEmailProvider_Send(p, n, ctx) ==
    IF ~p.healthy
    THEN Result(p, ctx, NilResponse,
                NewProviderError("mock-email", ErrorCodeProviderUnavailable,
                                 "provider is unhealthy"))
    ELSE IF n.Type # "email"
    THEN Result(p, ctx, NilResponse,
                NewValidationError("type", "notification type must be email"))
    ELSE MockEmailProvider_SendEmail(p, convertToEmailNotification(n), ctx)

\* MockEmailProvider.IsHealthy
MockEmailProvider_IsHealthy(p, ctx) ==
    IF ~p.healthy
    THEN Result(p, ctx, NilResponse,
                NewProviderError("mock-email", ErrorCodeProviderUnavailable,
                                 "provider is marked as unhealthy"))
    ELSE IF CtxDone(ctx)
    THEN Result(p, ctx, NilResponse,
                NewNotificationError(ErrorCodeTimeout, "health check timed out"))
    ELSE Result(p, AfterWait(ctx), NilResponse, NilError)

\* MockEmailProvider.GetTemplate: found, or TemplateNotFound
EmailGetTemplateError(p, templateID) ==
    IF templateID \in DOMAIN p.templates THEN NilError
    ELSE NewNotificationError(ErrorCodeTemplateNotFound,
                              "template not found: " \o templateID)

\* MockEmailProvider.RenderTemplate, for a template GetTemplate found: a clone
\* with the variables replaced in subject and bodies
MockEmailProvider_RenderTemplate(p, templateID, data, order) ==
    LET t == p.templates[templateID]
    IN  [ID |-> t.ID,
         Subject |-> replaceVariables(t.Subject, data, order[1]),
         HTMLBody |-> replaceVariables(t.HTMLBody, data, order[2]),
         TextBody |-> replaceVariables(t.TextBody, data, order[3])]

(***************************************************************************)
(* EmailService                                                            *)
(***************************************************************************)
\* a nil request pointer
NilRequest == [kind |-> "nil"]

\* no notification was handed to the provider
NoNotification == [kind |-> "nil"]

\* the result of a service call: the provider call's result, the stages the
\* call went through in order, the number of uuid.New() calls it made and
\* the notification it handed to the provider's send operation
ServiceResult(r, stages, ids, handed) ==
    [p |-> r.p, ctx |-> r.ctx, resp |-> r.resp, err |-> r.err,
     stages |-> stages, ids |-> ids, handed |-> handed]

\* EmailService.validateEmailRequest
validateEmailRequest(request) ==
    IF request.kind = "nil"
    THEN NewValidationError("request", "email request is required")
    ELSE IF Len(request.To) = 0
    THEN NewValidationError("to", "at least one recipient is required")
    ELSE IF IsError(firstInvalidAddress(request.To, "to", 1))
    THEN firstInvalidAddress(request.To, "to", 1)
    ELSE IF IsError(firstInvalidAddress(request.CC, "cc", 1))
    THEN firstInvalidAddress(request.CC, "cc", 1)
    ELSE IF IsError(firstInvalidAddress(request.BCC, "bcc", 1))
    THEN firstInvalidAddress(request.BCC, "bcc", 1)
    ELSE IF request.From # "" /\ IsError(ValidateEmailAddress(request.From))
    THEN NewValidationError("from", "invalid sender email address")
    ELSE IF request.ReplyTo # "" /\ IsError(ValidateEmailAddress(request.ReplyTo))
    THEN NewValidationError("reply_to", "invalid reply-to email address")
    ELSE IF request.Subject = "" /\ request.TemplateID = ""
    THEN NewValidationError("subject",
                            "email subject is required when not using a template")
    ELSE IF request.HTMLBody = "" /\ request.TextBody = "" /\ request.TemplateID = ""
    THEN NewValidationError("body",
                            "email must have either HTML body, text body, or template")
    ELSE NilError

\* EmailService.createEmailNotification, id being the value of uuid.New()
createEmailNotification(request, id) ==
    [ID |-> id, Type |-> "email", Recipient |-> request.To[1],
     Subject |-> request.Subject, Body |-> request.TextBody,
     RetryCount |-> 0, MaxRetries |-> 3,
     To |-> request.To, CC |-> request.CC, BCC |-> request.BCC,
     From |-> IF request.From = "" THEN DefaultSender ELSE request.From,
     ReplyTo |-> request.ReplyTo,
     HTMLBody |-> request.HTMLBody, TextBody |-> request.TextBody]

\* applyTemplate keeping a subject the request gave
ApplyTemplate_KeepSubject(e, rendered) ==
    [e EXCEPT !.Subject = IF e.Subject # "" THEN e.Subject ELSE rendered.Subject,
              !.HTMLBody = rendered.HTMLBody,
              !.TextBody = rendered.TextBody, !.Body = rendered.TextBody]

\* EmailService.applyTemplate, for a template the provider found
EmailApplyTemplate(e, rendered) ==
    [e EXCEPT !.Subject = rendered.Subject, !.HTMLBody = rendered.HTMLBody,
              !.TextBody = rendered.TextBody, !.Body = rendered.TextBody]

\* SendEmail asking the provider for its health before it validates the request
SendEmail_HealthFirst(p, request, ctx, id, order) ==
    LET h == MockEmailProvider_IsHealthy(p, ctx) IN
    IF IsError(h.err)
    THEN ServiceResult(h, <<"health">>, 0, NoNotification)
    ELSE IF IsError(validateEmailRequest(request))
    THEN ServiceResult(Result(p, h.ctx, NilResponse, validateEmailRequest(request)),
                       <<"health", "validate">>, 0, NoNotification)
    ELSE LET n == createEmailNotification(request, id) IN
    IF request.TemplateID # "" /\ IsError(EmailGetTemplateError(p, request.TemplateID))
    THEN ServiceResult(Result(p, h.ctx, NilResponse,
                              EmailGetTemplateError(p, request.TemplateID)),
                       <<"health", "validate", "template">>, 1, NoNotification)
    ELSE LET e == IF request.TemplateID = "" THEN n
                  ELSE EmailApplyTemplate(n,
                           MockEmailProvider_RenderTemplate(p, request.TemplateID,
                                                            request.TemplateData, order))
             st == IF request.TemplateID = "" THEN <<"health", "validate", "send">>
                   ELSE <<"health", "validate", "template", "send">>
         IN  ServiceResult(MockEmailProvider_SendEmail(p, e, h.ctx), st, 1, e)

\* EmailService.SendEmail.  id is the next value of uuid.New(), order the
\* orders in which rendering ranges over the template data.
EmailService_SendEmail(p, request, ctx, id, order) ==
    IF IsError(validateEmailRequest(request))
    THEN ServiceResult(Result(p, ctx, NilResponse, validateEmailRequest(request)),
                       <<"validate">>, 0, NoNotification)
    ELSE LET h == MockEmailProvider_IsHealthy(p, ctx) IN
    IF IsError(h.err)
    THEN ServiceResult(h, <<"validate", "health">>, 0, NoNotification)
    ELSE LET n == createEmailNotification(request, id) IN
    IF request.TemplateID # "" /\ IsError(EmailGetTemplateError(p, request.TemplateID))
    THEN ServiceResult(Result(p, h.ctx, NilResponse,
                              EmailGetTemplateError(p, request.TemplateID)),
                       <<"validate", "health", "template">>, 1, NoNotification)
    ELSE LET e == IF request.TemplateID = "" THEN n
                  ELSE EmailApplyTemplate(n,
                           MockEmailProvider_RenderTemplate(p, request.TemplateID,
                                                            request.TemplateData, order))
             st == IF request.TemplateID = "" THEN <<"validate", "health", "send">>
                   ELSE <<"validate", "health", "template", "send">>
         IN  ServiceResult(MockEmailProvider_SendEmail(p, e, h.ctx), st, 1, e)

\* the request SendBulkEmail builds for one recipient
BulkEmailItem(request, recipient) ==
    [kind |-> "EmailRequest", To |-> <<recipient.Email>>, CC |-> << >>, BCC |-> << >>,
     From |-> request.From, ReplyTo |-> request.ReplyTo,
     Subject |-> request.Subject, HTMLBody |-> request.HTMLBody,
     TextBody |-> request.TextBody, TemplateID |-> request.TemplateID,
     TemplateData |-> mergeTemplateData(request.TemplateData, recipient.Data)]

\* the synthetic response a bulk send records for a failed recipient
FailedResponse(id, err) ==
    [kind |-> "NotificationResponse", ID |-> id, Status |-> StatusFailed,
     Message |-> "", ProviderID |-> "", Error |-> ErrorString(err)]

\* what a bulk call keeps of one item's single send
Item(r) == [resp |-> r.resp, err |-> r.err, stages |-> r.stages, handed |-> r.handed]

\* the running state of a bulk loop: provider, context, responses so far,
\* uuid.New() calls so far and, per item processed, the single send's result
BulkState(p, ctx) == [p |-> p, ctx |-> ctx, responses |-> << >>, ids |-> 0, items |-> << >>]

\* the number of items of a bulk call whose single send succeeded
Successes(items) == Cardinality({i \in 1..Len(items) : ~IsError(items[i].err)})

RECURSIVE EmailBulkLoop(_, _, _, _, _)
\* the loop of SendBulkEmail from recipient i on
EmailBulkLoop(st, request, firstID, orders, i) ==
    IF i > Len(request.Recipients) THEN st
    ELSE LET r == EmailService_SendEmail(st.p, BulkEmailItem(request, request.Recipients[i]),
                                         st.ctx, firstID + st.ids, orders[i])
             failed == IsError(r.err)
             response == IF failed THEN FailedResponse(firstID + st.ids + r.ids, r.err)
                         ELSE r.resp
         IN  EmailBulkLoop([p |-> r.p, ctx |-> r.ctx,
                            responses |-> Append(st.responses, response),
                            ids |-> st.ids + r.ids + (IF failed THEN 1 ELSE 0),
                            items |-> Append(st.items, Item(r))],
                           request, firstID, orders, i + 1)

\* SendBulkEmail reporting the recipients' failures in its own error
SendBulkEmail_ErrorOnFailure(p, request, ctx, firstID, orders) ==
    LET b == EmailBulkLoop(BulkState(p, ctx), request, firstID, orders, 1)
    IN  b @@ [err |-> IF Successes(b.items) < Len(b.items)
                      THEN NewNotificationError(ErrorCodeProviderUnavailable, "bulk failed")
                      ELSE NilError]

\* EmailService.SendBulkEmail: the responses and the aggregate error
EmailService_SendBulkEmail(p, request, ctx, firstID, orders) ==
    IF Len(request.Recipients) = 0
    THEN BulkState(p, ctx) @@
         [err |-> NewValidationError("recipients", "at least one recipient is required")]
    ELSE EmailBulkLoop(BulkState(p, ctx), request, firstID, orders, 1) @@
         [err |-> NilError]

(***************************************************************************)
(* MockSMSProvider.  Money is counted in 1/10000 of a dollar.              *)
(***************************************************************************)
\* unicode.ToUpper and unicode.ToLower of one ASCII byte
UpperOf ==
    [c \in LowerLetters |->
        LET i == CHOOSE k \in 1..26 : SubSeq("abcdefghijklmnopqrstuvwxyz", k, k) = c
        IN  SubSeq("ABCDEFGHIJKLMNOPQRSTUVWXYZ", i, i)]
LowerOf ==
    [c \in UpperLetters |->
        LET i == CHOOSE k \in 1..26 : SubSeq("ABCDEFGHIJKLMNOPQRSTUVWXYZ", k, k) = c
        IN  SubSeq("abcdefghijklmnopqrstuvwxyz", i, i)]

RECURSIVE MapBytes(_, _)
\* strings.Map over ASCII: every byte in the domain of f replaced by its image
MapBytes(s, f) ==
    IF s = "" THEN ""
    ELSE LET c == SubSeq(s, 1, 1)
         IN  (IF c \in DOMAIN f THEN f[c] ELSE c) \o MapBytes(SubSeq(s, 2, Len(s)), f)

\* strings.ToUpper and strings.ToLower, on ASCII
ToUpper(s) == MapBytes(s, UpperOf)
ToLower(s) == MapBytes(s, LowerOf)

\* loadDefaultTemplates: the four seeded templates
SMSDefaultTemplates ==
    ("verification" :>
        [ID |-> "verification",
         Message |-> "Your {{service_name}} verification code is: {{code}}. Valid for {{expiry_minutes}} minutes.",
         MaxLength |-> 160, Unicode |-> FALSE])
    @@ ("welcome_sms" :>
        [ID |-> "welcome_sms",
         Message |-> "Welcome to {{service_name}}, {{user_name}}! Thanks for joining us.",
         MaxLength |-> 160, Unicode |-> FALSE])
    @@ ("alert" :>
        [ID |-> "alert",
         Message |-> "ALERT: {{alert_message}} Time: {{timestamp}}",
         MaxLength |-> 160, Unicode |-> FALSE])
    @@ ("reminder" :>
        [ID |-> "reminder",
         Message |-> "Reminder: {{reminder_text}}. Reply STOP to opt out.",
         MaxLength |-> 160, Unicode |-> FALSE])

\* loadDefaultCosts: the price of one segment by country
SMSDefaultCosts ==
    [c \in {"US", "UK", "CA", "AU", "DE", "FR", "IN", "BR",
            "MX", "JP", "KR", "SG", "HK", "TH", "MY", "PH"} |->
        CASE c = "US" -> 75  [] c = "UK" -> 80  [] c = "CA" -> 70  [] c = "AU" -> 85
          [] c = "DE" -> 90  [] c = "FR" -> 88  [] c = "IN" -> 50  [] c = "BR" -> 95
          [] c = "MX" -> 80  [] c = "JP" -> 120 [] c = "KR" -> 110 [] c = "SG" -> 100
          [] c = "HK" -> 95  [] c = "TH" -> 85  [] c = "MY" -> 90  [] c = "PH" -> 85]

\* NewMockSMSProvider
NewMockSMSProvider ==
    [healthy |-> TRUE, sentSMS |-> << >>, templates |-> SMSDefaultTemplates,
     costs |-> SMSDefaultCosts]

\* MockSMSProvider.cleanPhoneNumber
cleanPhoneNumber(phoneNumber) ==
    ReplaceAll(ReplaceAll(ReplaceAll(ReplaceAll(ReplaceAll(ReplaceAll(
        phoneNumber, " ", ""), "-", ""), "(", ""), ")", ""), "+", ""), ".", "")

\* MockSMSProvider.validateCountryCode
validateCountryCode(countryCode) ==
    IF ToUpper(countryCode) \in {"US", "UK", "CA", "AU", "DE", "FR", "IN", "BR"}
    THEN NilError
    ELSE NewValidationError("country_code",
                            "country code not supported: " \o ToUpper(countryCode))

\* MockSMSProvider.validatePhoneForCountry
validatePhoneForCountry(cleanNumber, countryCode) ==
    LET cc == ToUpper(countryCode)
        n == Len(cleanNumber)
    IN  IF cc \in {"US", "CA"} /\ n # 10 /\ n # 11
        THEN NewValidationError("phone_number", "US/CA numbers must be 10 or 11 digits")
        ELSE IF cc = "UK" /\ (n < 10 \/ n > 11)
        THEN NewValidationError("phone_number", "UK numbers must be 10-11 digits")
        ELSE IF cc = "AU" /\ (n < 9 \/ n > 10)
        THEN NewValidationError("phone_number", "Australian numbers must be 9-10 digits")
        ELSE IF cc = "DE" /\ (n < 10 \/ n > 12)
        THEN NewValidationError("phone_number", "German numbers must be 10-12 digits")
        ELSE IF cc = "IN" /\ n # 10
        THEN NewValidationError("phone_number", "Indian numbers must be 10 digits")
        ELSE NilError

\* MockSMSProvider.ValidatePhoneNumber
MockSMSProvider_ValidatePhoneNumber(phoneNumber, countryCode) ==
    LET cleanNumber == cleanPhoneNumber(phoneNumber) IN
    IF phoneNumber = ""
    THEN NewValidationError("phone_number", "phone number is required")
    ELSE IF ~(Len(cleanNumber) \in 7..15 /\ AllIn(cleanNumber, Digits))
    THEN NewValidationError("phone_number", "phone number must contain 7-15 digits")
    ELSE IF countryCode # "" /\ IsError(validateCountryCode(countryCode))
    THEN validateCountryCode(countryCode)
    ELSE IF countryCode # ""
    THEN validatePhoneForCountry(cleanNumber, countryCode)
    ELSE NilError

\* MockSMSProvider.validateSMSNotification
validateSMSNotification(m) ==
    LET maxLength == IF m.Unicode THEN 70 ELSE 160 IN
    IF IsError(MockSMSProvider_ValidatePhoneNumber(m.PhoneNumber, m.CountryCode))
    THEN MockSMSProvider_ValidatePhoneNumber(m.PhoneNumber, m.CountryCode)
    ELSE IF m.Message = ""
    THEN NewValidationError("message", "SMS message is required")
    ELSE IF Len(m.Message) > maxLength * 10
    THEN NewValidationError("message", "message too long (max " \o Itoa(maxLength * 10)
                                       \o " characters for 10 segments)")
    ELSE NilError

\* the bytes below 128 that the model's texts are written in
ASCII ==
    Letters \cup Digits \cup
    {" ", "!", "#", "$", "%", "&", "'", "(", ")", "*", "+", ",", "-", ".", "/", ":",
     ";", "<", "=", ">", "?", "@", "[", "]", "^", "_", "{", "|", "}", "~"}

\* MockSMSProvider.containsUnicode
containsUnicode(text) == ~AllIn(text, ASCII)

\* MockSMSProvider.calculateSegments
calculateSegments(message, unicode) ==
    LET maxLength == IF unicode THEN 70 ELSE 160
        segmentLength == IF unicode THEN 67 ELSE maxLength - 7
    IN  IF Len(message) <= maxLength THEN 1
        ELSE (Len(message) + segmentLength - 1) \div segmentLength

\* calculateCost looking the country code up as it was given
calculateCost_CaseSensitive(p, countryCode, segments) ==
    LET baseCost == IF countryCode # "" /\ countryCode \in DOMAIN p.costs
                    THEN p.costs[countryCode]
                    ELSE 100
    IN  baseCost * segments

\* MockSMSProvider.calculateCost
calculateCost(p, countryCode, segments) ==
    LET baseCost == IF countryCode # "" /\ ToUpper(countryCode) \in DOMAIN p.costs
                    THEN p.costs[ToUpper(countryCode)]
                    ELSE 100
    IN  baseCost * segments

\* fmt.Sprintf("%.4f", cost) of an amount of 1/10000 dollars
FormatCost(cost) ==
    LET frac == cost % 10000
        pad == IF frac < 10 THEN "000" ELSE IF frac < 100 THEN "00"
               ELSE IF frac < 1000 THEN "0" ELSE ""
    IN  Itoa(cost \div 10000) \o "." \o pad \o Itoa(frac)

\* the audit record SendSMS stores; delivered is the outcome of the
\* simulated delivery (time.Now().UnixNano()%10 < 9)
SentSMSRecord(p, m, delivered) ==
    [ID |-> m.ID, PhoneNumber |-> m.PhoneNumber, CountryCode |-> m.CountryCode,
     Message |-> m.Message, Unicode |-> m.Unicode,
     Status |-> IF delivered THEN "delivered" ELSE "sent",
     DeliveredAt |-> delivered,
     Cost |-> calculateCost(p, m.CountryCode, calculateSegments(m.Message, m.Unicode)),
     Segments |-> calculateSegments(m.Message, m.Unicode),
     MessageID |-> "sms-" \o Itoa(m.ID)]

\* SendSMS validating the message before it looks at the health flag
SendSMS_ValidateFirst(p, m, ctx, delivered) ==
    IF IsError(validateSMSNotification(m))
    THEN Result(p, ctx, NilResponse, validateSMSNotification(m))
    ELSE IF ~p.healthy
    THEN Result(p, ctx, NilResponse,
                NewProviderError("mock-sms", ErrorCodeProviderUnavailable,
                                 "provider is unhealthy"))
    ELSE IF CtxDone(ctx)
    THEN Result(p, ctx, NilResponse,
                NewNotificationError(ErrorCodeTimeout, "SMS sending timed out"))
    ELSE Result([p EXCEPT !.sentSMS = Append(@, SentSMSRecord(p, m, delivered))],
                AfterWait(ctx),
                [kind |-> "NotificationResponse", ID |-> m.ID, Status |-> StatusSent,
                 Message |-> "SMS sent", ProviderID |-> "sms-" \o Itoa(m.ID),
                 Error |-> ""],
                NilError)

\* MockSMSProvider.SendSMS
MockSMSProvider_SendSMS(p, m, ctx, delivered) ==
    IF ~p.healthy
    THEN Result(p, ctx, NilResponse,
                NewProviderError("mock-sms", ErrorCodeProviderUnavailable,
                                 "provider is unhealthy"))
    ELSE IF IsError(validateSMSNotification(m))
    THEN Result(p, ctx, NilResponse, validateSMSNotification(m))
    ELSE IF CtxDone(ctx)
    THEN Result(p, ctx, NilResponse,
                NewNotificationError(ErrorCodeTimeout, "SMS sending timed out"))
    ELSE LET rec == SentSMSRecord(p, m, delivered) IN
         Result([p EXCEPT !.sentSMS = Append(@, rec)],
                AfterWait(ctx),
                [kind |-> "NotificationResponse", ID |-> m.ID, Status |-> StatusSent,
                 Message |-> "SMS sent to " \o m.PhoneNumber \o " ("
                             \o Itoa(rec.Segments) \o " segments, $"
                             \o FormatCost(rec.Cost) \o ")",
                 ProviderID |-> rec.MessageID, Error |-> ""],
                NilError)

\* MockSMSProvider.convertToSMSNotification, for a notification of type sms
convertToSMSNotification(n) ==
    [ID |-> n.ID, Type |-> n.Type, Recipient |-> n.Recipient, Subject |-> n.Subject,
     Body |-> n.Body, Metadata |-> n.Metadata,
     RetryCount |-> n.RetryCount, MaxRetries |-> n.MaxRetries,
     PhoneNumber |-> n.Recipient,
     CountryCode |-> IF "country_code" \in DOMAIN n.Metadata
                     THEN n.Metadata["country_code"] ELSE "",
     Message |-> n.Body, Unicode |-> containsUnicode(n.Body)]

\* MockSMSProvider.Send
MockSMSProvider_Send(p, n, ctx, delivered) ==
    IF ~p.healthy
    THEN Result(p, ctx, NilResponse,
                NewProviderError("mock-sms", ErrorCodeProviderUnavailable,
                                 "provider is unhealthy"))
    ELSE IF n.Type # "sms"
    THEN Result(p, ctx, NilResponse,
                NewValidationError("type", "notification type must be SMS"))
    ELSE MockSMSProvider_SendSMS(p, convertToSMSNotification(n), ctx, delivered)

\* MockSMSProvider.IsHealthy
MockSMSProvider_IsHealthy(p, ctx) ==
    IF ~p.healthy
    THEN Result(p, ctx, NilResponse,
                NewProviderError("mock-sms", ErrorCodeProviderUnavailable,
                                 "provider is marked as unhealthy"))
    ELSE IF CtxDone(ctx)
    THEN Result(p, ctx, NilResponse,
                NewNotificationError(ErrorCodeTimeout, "health check timed out"))
    ELSE Result(p, AfterWait(ctx), NilResponse, NilError)

\* MockSMSProvider.GetTemplate: found, or TemplateNotFound
SMSGetTemplateError(p, templateID) ==
    IF templateID \in DOMAIN p.templates THEN NilError
    ELSE NewNotificationError(ErrorCodeTemplateNotFound,
                              "template not found: " \o templateID)

\* MockSMSProvider.RenderTemplate, for a template GetTemplate found
MockSMSProvider_RenderTemplate(p, templateID, data, order) ==
    LET t == p.templates[templateID]
    IN  [t EXCEPT !.Message = replaceVariables(t.Message, data, order[1])]

(***************************************************************************)
(* SMSService                                                              *)
(***************************************************************************)
\* SMSService.validateSMSRequest
validateSMSRequest(request) ==
    IF request.kind = "nil"
    THEN NewValidationError("request", "SMS request is required")
    ELSE IF request.PhoneNumber = ""
    THEN NewValidationError("phone_number", "phone number is required")
    ELSE IF IsError(MockSMSProvider_ValidatePhoneNumber(request.PhoneNumber,
                                                        request.CountryCode))
    THEN MockSMSProvider_ValidatePhoneNumber(request.PhoneNumber, request.CountryCode)
    ELSE IF request.Message = "" /\ request.TemplateID = ""
    THEN NewValidationError("message",
                            "SMS message is required when not using a template")
    ELSE IF Len(request.Message) > (IF request.Unicode THEN 70 * 10 ELSE 160 * 10)
    THEN NewValidationError("message",
             "message too long (max "
             \o Itoa(IF request.Unicode THEN 70 * 10 ELSE 160 * 10)
             \o " characters for 10 segments)")
    ELSE NilError

\* SMSService.createSMSNotification, id being the value of uuid.New()
createSMSNotification(request, id) ==
    [ID |-> id, Type |-> "sms", Recipient |-> request.PhoneNumber,
     Subject |-> "SMS Notification", Body |-> request.Message,
     Metadata |-> IF request.CountryCode # ""
                  THEN ("country_code" :> request.CountryCode) @@ request.Metadata
                  ELSE request.Metadata,
     RetryCount |-> 0, MaxRetries |-> 3,
     PhoneNumber |-> request.PhoneNumber, CountryCode |-> request.CountryCode,
     Message |-> request.Message, Unicode |-> request.Unicode]

\* SMSService.applyTemplate, for a template the provider found
SMSApplyTemplate(m, rendered) ==
    [m EXCEPT !.Message = rendered.Message, !.Body = rendered.Message,
              !.Unicode = rendered.Unicode]

\* SendSMS going to the provider's send without asking for its health
SendSMS_NoHealthCheck(p, request, ctx, id, order, delivered) ==
    IF IsError(validateSMSRequest(request))
    THEN ServiceResult(Result(p, ctx, NilResponse, validateSMSRequest(request)),
                       <<"validate">>, 0, NoNotification)
    ELSE LET n == createSMSNotification(request, id) IN
    IF request.TemplateID # "" /\ IsError(SMSGetTemplateError(p, request.TemplateID))
    THEN ServiceResult(Result(p, ctx, NilResponse,
                              SMSGetTemplateError(p, request.TemplateID)),
                       <<"validate", "template">>, 1, NoNotification)
    ELSE LET m == IF request.TemplateID = "" THEN n
                  ELSE SMSApplyTemplate(n,
                           MockSMSProvider_RenderTemplate(p, request.TemplateID,
                                                          request.TemplateData, order))
             st == IF request.TemplateID = "" THEN <<"validate", "send">>
                   ELSE <<"validate", "template", "send">>
         IN  ServiceResult(MockSMSProvider_SendSMS(p, m, ctx, delivered), st, 1, m)

\* SMSService.SendSMS.  id is the next value of uuid.New(), order the order
\* in which rendering ranges over the template data, delivered the outcome
\* of the provider's simulated delivery.
SMSService_SendSMS(p, request, ctx, id, order, delivered) ==
    IF IsError(validateSMSRequest(request))
    THEN ServiceResult(Result(p, ctx, NilResponse, validateSMSRequest(request)),
                       <<"validate">>, 0, NoNotification)
    ELSE LET h == MockSMSProvider_IsHealthy(p, ctx) IN
    IF IsError(h.err)
    THEN ServiceResult(h, <<"validate", "health">>, 0, NoNotification)
    ELSE LET n == createSMSNotification(request, id) IN
    IF request.TemplateID # "" /\ IsError(SMSGetTemplateError(p, request.TemplateID))
    THEN ServiceResult(Result(p, h.ctx, NilResponse,
                              SMSGetTemplateError(p, request.TemplateID)),
                       <<"validate", "health", "template">>, 1, NoNotification)
    ELSE LET m == IF request.TemplateID = "" THEN n
                  ELSE SMSApplyTemplate(n,
                           MockSMSProvider_RenderTemplate(p, request.TemplateID,
                                                          request.TemplateData, order))
             st == IF request.TemplateID = "" THEN <<"validate", "health", "send">>
                   ELSE <<"validate", "health", "template", "send">>
         IN  ServiceResult(MockSMSProvider_SendSMS(p, m, h.ctx, delivered), st, 1, m)

\* the request SendBulkSMS builds for one recipient
BulkSMSItem(request, recipient) ==
    [kind |-> "SMSRequest", PhoneNumber |-> recipient.PhoneNumber,
     CountryCode |-> recipient.CountryCode, Message |-> request.Message,
     Unicode |-> request.Unicode, TemplateID |-> request.TemplateID,
     TemplateData |-> mergeTemplateData(request.TemplateData, recipient.Data),
     Metadata |-> request.Metadata]

RECURSIVE SMSBulkLoop(_, _, _, _, _, _)
\* the loop of SendBulkSMS from recipient i on
SMSBulkLoop(st, request, firstID, orders, delivereds, i) ==
    IF i > Len(request.Recipients) THEN st
    ELSE LET r == SMSService_SendSMS(st.p, BulkSMSItem(request, request.Recipients[i]),
                                     st.ctx, firstID + st.ids, orders[i], delivereds[i])
             failed == IsError(r.err)
             response == IF failed THEN FailedResponse(firstID + st.ids + r.ids, r.err)
                         ELSE r.resp
         IN  SMSBulkLoop([p |-> r.p, ctx |-> r.ctx,
                          responses |-> Append(st.responses, response),
                          ids |-> st.ids + r.ids + (IF failed THEN 1 ELSE 0),
                          items |-> Append(st.items, Item(r))],
                         request, firstID, orders, delivereds, i + 1)

\* SMSService.SendBulkSMS: the responses and the aggregate error
SMSService_SendBulkSMS(p, request, ctx, firstID, orders, delivereds) ==
    IF Len(request.Recipients) = 0
    THEN BulkState(p, ctx) @@
         [err |-> NewValidationError("recipients", "at least one recipient is required")]
    ELSE SMSBulkLoop(BulkState(p, ctx), request, firstID, orders, delivereds, 1) @@
         [err |-> NilError]

(***************************************************************************)
(* MockPushProvider                                                        *)
(***************************************************************************)
\* loadPlatformConfigs
PushPlatformConfigs ==
    ("ios" :>
        [Platform |-> "ios", MaxPayloadSize |-> 4096, MaxTitleLength |-> 50,
         MaxBodyLength |-> 200, SupportsBadge |-> TRUE, SupportsSound |-> TRUE,
         DefaultSound |-> "default"])
    @@ ("android" :>
        [Platform |-> "android", MaxPayloadSize |-> 4000, MaxTitleLength |-> 65,
         MaxBodyLength |-> 240, SupportsBadge |-> FALSE, SupportsSound |-> TRUE,
         DefaultSound |-> "default"])
    @@ ("web" :>
        [Platform |-> "web", MaxPayloadSize |-> 3072, MaxTitleLength |-> 50,
         MaxBodyLength |-> 120, SupportsBadge |-> TRUE, SupportsSound |-> FALSE,
         DefaultSound |-> ""])

\* loadDefaultTemplates: the four seeded templates (the promotion title's
\* emoji is written as an ASCII tag)
PushDefaultTemplates ==
    ("welcome_push" :>
        [ID |-> "welcome_push", Title |-> "Welcome to {{app_name}}!",
         Body |-> "Hi {{user_name}}, thanks for installing {{app_name}}. Tap to get started!",
         Icon |-> "ic_welcome", Sound |-> "default"])
    @@ ("news_alert" :>
        [ID |-> "news_alert", Title |-> "Breaking: {{headline}}",
         Body |-> "{{summary}} Tap to read more.",
         Icon |-> "ic_news", Sound |-> "news_alert"])
    @@ ("promotion" :>
        [ID |-> "promotion", Title |-> "[tada] Special Offer!",
         Body |-> "{{offer_text}} Use code {{promo_code}}. Valid until {{expiry_date}}.",
         Icon |-> "ic_promotion", Sound |-> "promotion"])
    @@ ("reminder" :>
        [ID |-> "reminder", Title |-> "Reminder: {{event_title}}",
         Body |-> "{{event_description}} Scheduled for {{event_time}}.",
         Icon |-> "ic_reminder", Sound |-> "gentle"])

\* NewMockPushProvider
NewMockPushProvider ==
    [healthy |-> TRUE, sentPushes |-> << >>, templates |-> PushDefaultTemplates,
     deviceTokens |-> EmptyMap, platformConfigs |-> PushPlatformConfigs]

\* MockPushProvider.GetSupportedPlatforms
GetSupportedPlatforms == <<"ios", "android", "web">>

\* s is one of the elements of the slice list
Contains(list, s) == \E i \in 1..Len(list) : list[i] = s

HexDigits == Digits \cup {"a", "b", "c", "d", "e", "f", "A", "B", "C", "D", "E", "F"}

\* MockPushProvider.validateIOSToken
validateIOSToken(token) ==
    IF Len(token) # 64
    THEN NewValidationError("device_token", "iOS device token must be 64 characters")
    ELSE IF ~AllIn(token, HexDigits)
    THEN NewValidationError("device_token",
                            "iOS device token must contain only hexadecimal characters")
    ELSE NilError

\* MockPushProvider.validateAndroidToken
validateAndroidToken(token) ==
    IF Len(token) < 140 \/ Len(token) > 255
    THEN NewValidationError("device_token", "Android FCM token must be 140-255 characters")
    ELSE IF ~AllIn(token, Letters \cup Digits \cup {"_", "-"})
    THEN NewValidationError("device_token", "Android FCM token contains invalid characters")
    ELSE NilError

\* MockPushProvider.validateWebToken
validateWebToken(token) ==
    IF Len(token) < 50 \/ Len(token) > 500
    THEN NewValidationError("device_token", "Web push token must be 50-500 characters")
    ELSE NilError

\* MockPushProvider.ValidateDeviceToken
MockPushProvider_ValidateDeviceToken(token, platform) ==
    IF token = ""
    THEN NewValidationError("device_token", "device token is required")
    ELSE IF ToLower(platform) = "ios" THEN validateIOSToken(token)
    ELSE IF ToLower(platform) = "android" THEN validateAndroidToken(token)
    ELSE IF ToLower(platform) = "web" THEN validateWebToken(token)
    ELSE NewValidationError("platform", "unsupported platform: " \o ToLower(platform))

\* MockPushProvider.validatePushNotification
validatePushNotification(p, n) ==
    LET platform == ToLower(n.Platform) IN
    IF IsError(MockPushProvider_ValidateDeviceToken(n.DeviceToken, n.Platform))
    THEN MockPushProvider_ValidateDeviceToken(n.DeviceToken, n.Platform)
    ELSE IF ~Contains(GetSupportedPlatforms, platform)
    THEN NewValidationError("platform", "unsupported platform: " \o n.Platform)
    ELSE IF n.Title = "" /\ n.Message = ""
    THEN NewValidationError("content",
                            "push notification must have either title or message")
    ELSE IF platform \in DOMAIN p.platformConfigs
            /\ Len(n.Title) > p.platformConfigs[platform].MaxTitleLength
    THEN NewValidationError("title", "title too long (max "
             \o Itoa(p.platformConfigs[platform].MaxTitleLength) \o " characters)")
    ELSE IF platform \in DOMAIN p.platformConfigs
            /\ Len(n.Message) > p.platformConfigs[platform].MaxBodyLength
    THEN NewValidationError("message", "message too long (max "
             \o Itoa(p.platformConfigs[platform].MaxBodyLength) \o " characters)")
    ELSE NilError

\* a cut at the limit, with no room made for the dots
Truncate_NoEllipsis(s, max) == IF Len(s) > max THEN SubSeq(s, 1, max) ELSE s

\* s[:max-3] + "..." when s is longer than max
Truncate(s, max) == IF Len(s) > max THEN SubSeq(s, 1, max - 3) \o "..." ELSE s

\* MockPushProvider.formatForPlatform: the formatted copy
formatForPlatform(p, n) ==
    LET platform == ToLower(n.Platform) IN
    IF platform \notin DOMAIN p.platformConfigs THEN n
    ELSE LET config == p.platformConfigs[platform] IN
         [n EXCEPT
            !.Title = Truncate(@, config.MaxTitleLength),
            !.Message = Truncate(@, config.MaxBodyLength),
            !.Sound = IF @ = "" /\ config.SupportsSound THEN config.DefaultSound ELSE @,
            !.Badge = IF platform = "ios" /\ ~config.SupportsBadge THEN 0 ELSE @,
            !.Icon = IF platform = "android" /\ @ = "" THEN "ic_notification"
                     ELSE IF platform = "web" /\ @ = "" THEN "/icon-192x192.png"
                     ELSE @]

\* updateDeviceLastSeen marking every registered device as seen
UpdateLastSeen_AllDevices(p, token, t) ==
    [p EXCEPT !.deviceTokens =
        [k \in DOMAIN p.deviceTokens |->
            [p.deviceTokens[k] EXCEPT !.LastSeen = t, !.Active = TRUE]]]

\* MockPushProvider.updateDeviceLastSeen, at time t
updateDeviceLastSeen(p, token, t) ==
    IF token \in DOMAIN p.deviceTokens
    THEN [p EXCEPT !.deviceTokens[token].LastSeen = t,
                   !.deviceTokens[token].Active = TRUE]
    ELSE p

\* the audit record with the status "delivered" whatever became of the delivery
SentPushRecord_AlwaysDelivered(n, f, delivered) ==
    [ID |-> n.ID, DeviceToken |-> n.DeviceToken, Platform |-> n.Platform,
     Title |-> f.Title, Body |-> f.Message, Icon |-> f.Icon, Badge |-> f.Badge,
     Sound |-> f.Sound, Data |-> f.Data, ImageURL |-> f.ImageURL,
     ClickAction |-> f.ClickAction,
     Status |-> "delivered",
     DeliveredAt |-> delivered,
     MessageID |-> "push-" \o Itoa(n.ID)]

\* the audit record SendPush stores for the notification n formatted as f;
\* delivered is the outcome of the simulated delivery
\* (time.Now().UnixNano()%100 < 85)
SentPushRecord(n, f, delivered) ==
    [ID |-> n.ID, DeviceToken |-> n.DeviceToken, Platform |-> n.Platform,
     Title |-> f.Title, Body |-> f.Message, Icon |-> f.Icon, Badge |-> f.Badge,
     Sound |-> f.Sound, Data |-> f.Data, ImageURL |-> f.ImageURL,
     ClickAction |-> f.ClickAction,
     Status |-> IF delivered THEN "delivered" ELSE "sent",
     DeliveredAt |-> delivered,
     MessageID |-> "push-" \o Itoa(n.ID)]

\* SendPush marking the device as seen before the simulated latency
SendPush_SeenBeforeWait(p, n, ctx, delivered, t) ==
    LET f == formatForPlatform(p, n) IN
    IF ~p.healthy
    THEN Result(p, ctx, NilResponse,
                NewProviderError("mock-push", ErrorCodeProviderUnavailable,
                                 "provider is unhealthy"))
    ELSE IF IsError(validatePushNotification(p, f))
    THEN Result(p, ctx, NilResponse, validatePushNotification(p, f))
    ELSE IF CtxDone(ctx)
    THEN Result(updateDeviceLastSeen(p, n.DeviceToken, t), ctx, NilResponse,
                NewNotificationError(ErrorCodeTimeout,
                                     "push notification sending timed out"))
    ELSE Result(updateDeviceLastSeen(
                    [p EXCEPT !.sentPushes = Append(@, SentPushRecord(n, f, delivered))],
                    n.DeviceToken, t),
                AfterWait(ctx),
                [kind |-> "NotificationResponse", ID |-> n.ID, Status |-> StatusSent,
                 Message |-> "Push notification sent to " \o n.Platform \o " device",
                 ProviderID |-> "push-" \o Itoa(n.ID), Error |-> ""],
                NilError)

\* SendPush validating the notification as submitted, before formatting it
SendPush_ValidateFirst(p, n, ctx, delivered, t) ==
    LET f == formatForPlatform(p, n) IN
    IF ~p.healthy
    THEN Result(p, ctx, NilResponse,
                NewProviderError("mock-push", ErrorCodeProviderUnavailable,
                                 "provider is unhealthy"))
    ELSE IF IsError(validatePushNotification(p, n))
    THEN Result(p, ctx, NilResponse, validatePushNotification(p, n))
    ELSE IF CtxDone(ctx)
    THEN Result(p, ctx, NilResponse,
                NewNotificationError(ErrorCodeTimeout,
                                     "push notification sending timed out"))
    ELSE Result(updateDeviceLastSeen(
                    [p EXCEPT !.sentPushes = Append(@, SentPushRecord(n, f, delivered))],
                    n.DeviceToken, t),
                AfterWait(ctx),
                [kind |-> "NotificationResponse", ID |-> n.ID, Status |-> StatusSent,
                 Message |-> "Push notification sent to " \o n.Platform \o " device",
                 ProviderID |-> "push-" \o Itoa(n.ID), Error |-> ""],
                NilError)

\* MockPushProvider.SendPush, time.Now() being t
MockPushProvider_SendPush(p, n, ctx, delivered, t) ==
    LET f == formatForPlatform(p, n) IN
    IF ~p.healthy
    THEN Result(p, ctx, NilResponse,
                NewProviderError("mock-push", ErrorCodeProviderUnavailable,
                                 "provider is unhealthy"))
    ELSE IF IsError(validatePushNotification(p, f))
    THEN Result(p, ctx, NilResponse, validatePushNotification(p, f))
    ELSE IF CtxDone(ctx)
    THEN Result(p, ctx, NilResponse,
                NewNotificationError(ErrorCodeTimeout,
                                     "push notification sending timed out"))
    ELSE Result(updateDeviceLastSeen(
                    [p EXCEPT !.sentPushes = Append(@, SentPushRecord(n, f, delivered))],
                    n.DeviceToken, t),
                AfterWait(ctx),
                [kind |-> "NotificationResponse", ID |-> n.ID, Status |-> StatusSent,
                 Message |-> "Push notification sent to " \o n.Platform \o " device",
                 ProviderID |-> "push-" \o Itoa(n.ID), Error |-> ""],
                NilError)

\* MockPushProvider.convertToPushNotification, for a notification of type push
convertToPushNotification(n) ==
    [ID |-> n.ID, Type |-> n.Type, Recipient |-> n.Recipient, Subject |-> n.Subject,
     Body |-> n.Body, Metadata |-> n.Metadata,
     RetryCount |-> n.RetryCount, MaxRetries |-> n.MaxRetries,
     DeviceToken |-> IF "device_token" \in DOMAIN n.Metadata
                     THEN n.Metadata["device_token"] ELSE n.Recipient,
     Platform |-> IF "platform" \in DOMAIN n.Metadata
                  THEN n.Metadata["platform"] ELSE "android",
     Title |-> n.Subject, Message |-> n.Body, Icon |-> "", Badge |-> 0,
     Sound |-> "default", Data |-> EmptyMap, ImageURL |-> "", ClickAction |-> ""]

\* MockPushProvider.Send
MockPushProvider_Send(p, n, ctx, delivered, t) ==
    IF ~p.healthy
    THEN Result(p, ctx, NilResponse,
                NewProviderError("mock-push", ErrorCodeProviderUnavailable,
                                 "provider is unhealthy"))
    ELSE IF n.Type # "push"
    THEN Result(p, ctx, NilResponse,
                NewValidationError("type", "notification type must be push"))
    ELSE MockPushProvider_SendPush(p, convertToPushNotification(n), ctx, delivered, t)

\* MockPushProvider.IsHealthy
MockPushProvider_IsHealthy(p, ctx) ==
    IF ~p.healthy
    THEN Result(p, ctx, NilResponse,
                NewProviderError("mock-push", ErrorCodeProviderUnavailable,
                                 "provider is marked as unhealthy"))
    ELSE IF CtxDone(ctx)
    THEN Result(p, ctx, NilResponse,
                NewNotificationError(ErrorCodeTimeout, "health check timed out"))
    ELSE Result(p, AfterWait(ctx), NilResponse, NilError)

\* MockPushProvider.RegisterDevice, time.Now() being t
MockPushProvider_RegisterDevice(p, token, platform, t) ==
    IF IsError(MockPushProvider_ValidateDeviceToken(token, platform))
    THEN Result(p, NoCancel, NilResponse,
                MockPushProvider_ValidateDeviceToken(token, platform))
    ELSE Result([p EXCEPT !.deviceTokens =
                    (token :> [Token |-> token, Platform |-> ToLower(platform),
                               RegisteredAt |-> t, LastSeen |-> t, Active |-> TRUE]) @@ @],
                NoCancel, NilResponse, NilError)

\* MockPushProvider.UnregisterDevice
MockPushProvider_UnregisterDevice(p, token) ==
    IF token \notin DOMAIN p.deviceTokens
    THEN Result(p, NoCancel, NilResponse,
                NewNotificationError(ErrorCodeNotFound, "device token not found"))
    ELSE Result([p EXCEPT !.deviceTokens =
                    [k \in DOMAIN p.deviceTokens \ {token} |-> p.deviceTokens[k]]],
                NoCancel, NilResponse, NilError)

(***************************************************************************)
(* PushService                                                             *)
(***************************************************************************)
\* a nil *PushData
NilPushData == [kind |-> "nil"]

\* PushService.validatePushRequest
validatePushRequest(request) ==
    IF request.kind = "nil"
    THEN NewValidationError("request", "notification request is required")
    ELSE IF request.Type # "push"
    THEN NewValidationError("type", "notification type must be push")
    ELSE IF request.Body = ""
    THEN NewValidationError("body", "notification body is required")
    ELSE IF request.PushData.kind = "nil"
    THEN NewValidationError("push_data", "push data is required for push notifications")
    ELSE IF request.PushData.DeviceToken = ""
    THEN NewValidationError("device_token", "device token is required")
    ELSE IF request.PushData.Platform = ""
    THEN NewValidationError("platform", "platform is required")
    ELSE IF ~Contains(GetSupportedPlatforms, ToLower(request.PushData.Platform))
    THEN NewValidationError("platform",
             "unsupported platform: " \o request.PushData.Platform
             \o ". Supported: [ios android web]")
    ELSE NilError

\* PushService.convertRequestToPushNotification, id being the value of uuid.New()
convertRequestToPushNotification(request, id) ==
    LET pushData == request.PushData IN
    [ID |-> id, Type |-> "push", Recipient |-> request.Recipient,
     Subject |-> request.Subject, Body |-> request.Body, Metadata |-> request.Metadata,
     RetryCount |-> 0,
     MaxRetries |-> IF request.MaxRetries = 0 THEN 3 ELSE request.MaxRetries,
     DeviceToken |-> pushData.DeviceToken, Platform |-> ToLower(pushData.Platform),
     Title |-> IF pushData.Title = "" /\ request.Subject # "" THEN request.Subject
               ELSE pushData.Title,
     Message |-> request.Body, Icon |-> pushData.Icon, Badge |-> pushData.Badge,
     Sound |-> IF pushData.Sound = "" THEN "default" ELSE pushData.Sound,
     Data |-> request.Metadata @@ pushData.Data,
     ImageURL |-> pushData.ImageURL, ClickAction |-> pushData.ClickAction]

RECURSIVE DataSize(_)
\* for key, value := range data { size += len(key) + len(value) }
DataSize(data) ==
    IF DOMAIN data = {} THEN 0
    ELSE LET k == CHOOSE x \in DOMAIN data : TRUE
         IN  Len(k) + Len(data[k]) + DataSize([x \in DOMAIN data \ {k} |-> data[x]])

\* PushService.estimatePayloadSize
estimatePayloadSize(n) ==
    Len(n.Title) + Len(n.Message) + Len(n.Icon) + Len(n.Sound)
    + Len(n.ImageURL) + Len(n.ClickAction) + DataSize(n.Data) + 200

\* MockPushProvider.GetPlatformConfig: the payload limit
MaxPayload(p, platform) ==
    IF ToLower(platform) \in DOMAIN p.platformConfigs
    THEN p.platformConfigs[ToLower(platform)].MaxPayloadSize
    ELSE 4096

\* PushService.preprocessIOSNotification
preprocessIOSNotification(n) ==
    [n EXCEPT !.Title = Truncate(@, 50), !.Message = Truncate(@, 200),
              !.Badge = IF @ < 0 THEN 0 ELSE @,
              !.Sound = IF @ = "" THEN "default" ELSE @]

\* PushService.preprocessAndroidNotification
preprocessAndroidNotification(n) ==
    [n EXCEPT !.Title = Truncate(@, 65), !.Message = Truncate(@, 240),
              !.Icon = IF @ = "" THEN "ic_notification" ELSE @,
              !.Badge = 0]

\* PushService.preprocessWebNotification
preprocessWebNotification(n) ==
    [n EXCEPT !.Title = Truncate(@, 50), !.Message = Truncate(@, 120),
              !.Icon = IF @ = "" THEN "/icon-192x192.png" ELSE @,
              !.Sound = ""]

\* PushService.preprocessPushNotification: the notification afterwards
preprocessPushNotification(n) ==
    IF n.Platform = "ios" THEN preprocessIOSNotification(n)
    ELSE IF n.Platform = "android" THEN preprocessAndroidNotification(n)
    ELSE IF n.Platform = "web" THEN preprocessWebNotification(n)
    ELSE n

\* the payload check applied to the platform-truncated notification
preprocessError_AfterTruncation(p, n) ==
    IF estimatePayloadSize(preprocessPushNotification(n)) > MaxPayload(p, n.Platform)
    THEN NewValidationError("payload",
             "payload too large for platform " \o n.Platform \o " (max: "
             \o Itoa(MaxPayload(p, n.Platform)) \o " bytes)")
    ELSE NilError

\* PushService.preprocessPushNotification: the error of the payload check
preprocessError(p, n) ==
    IF estimatePayloadSize(n) > MaxPayload(p, n.Platform)
    THEN NewValidationError("payload",
             "payload too large for platform " \o n.Platform \o " (max: "
             \o Itoa(MaxPayload(p, n.Platform)) \o " bytes)")
    ELSE NilError

\* PushService.SendPushNotification.  id is the next value of uuid.New(),
\* delivered the outcome of the provider's simulated delivery, t time.Now().
PushService_SendPushNotification(p, request, ctx, id, delivered, t) ==
    IF IsError(validatePushRequest(request))
    THEN ServiceResult(Result(p, ctx, NilResponse, validatePushRequest(request)),
                       <<"validate">>, 0, NoNotification)
    ELSE LET c == convertRequestToPushNotification(request, id) IN
    IF IsError(preprocessError(p, c))
    THEN ServiceResult(Result(p, ctx, NilResponse, preprocessError(p, c)),
                       <<"validate", "preprocess">>, 1, NoNotification)
    ELSE LET n == preprocessPushNotification(c) IN
    IF IsError(MockPushProvider_ValidateDeviceToken(n.DeviceToken, n.Platform))
    THEN ServiceResult(Result(p, ctx, NilResponse,
                              MockPushProvider_ValidateDeviceToken(n.DeviceToken,
                                                                   n.Platform)),
                       <<"validate", "preprocess", "token">>, 1, NoNotification)
    ELSE ServiceResult(MockPushProvider_SendPush(p, n, ctx, delivered, t),
                       <<"validate", "preprocess", "token", "send">>, 1, n)

RECURSIVE JoinErrors(_, _)
\* strings.Join(errorMessages, "; ") from message i on
JoinErrors(messages, i) ==
    IF i > Len(messages) THEN ""
    ELSE IF i = Len(messages) THEN messages[i]
    ELSE messages[i] \o "; " \o JoinErrors(messages, i + 1)

RECURSIVE PushBulkLoop(_, _, _, _, _, _)
\* the loop of SendBulkPushNotifications from request i on; errors are the
\* messages of the failures so far
PushBulkLoop(st, requests, firstID, delivereds, t, i) ==
    IF i > Len(requests) THEN st
    ELSE LET r == PushService_SendPushNotification(st.p, requests[i], st.ctx,
                                                   firstID + st.ids, delivereds[i], t)
             failed == IsError(r.err)
         IN  PushBulkLoop(
                 [p |-> r.p, ctx |-> r.ctx,
                  responses |-> IF failed THEN st.responses
                                ELSE Append(st.responses, r.resp),
                  ids |-> st.ids + r.ids,
                  items |-> Append(st.items, Item(r)),
                  errors |-> IF failed
                             THEN Append(st.errors, "notification " \o Itoa(i) \o ": "
                                                    \o ErrorString(r.err))
                             ELSE st.errors],
                 requests, firstID, delivereds, t, i + 1)

\* SendBulkPushNotifications returning nil, err once a request has failed
SendBulkPush_NilOnFailure(p, requests, ctx, firstID, delivereds, t) ==
    LET b == PushBulkLoop(BulkState(p, ctx) @@ [errors |-> << >>],
                          requests, firstID, delivereds, t, 1)
    IN  [p |-> b.p, ctx |-> b.ctx,
         responses |-> IF Len(b.errors) > 0 THEN << >> ELSE b.responses,
         ids |-> b.ids, items |-> b.items,
         err |-> IF Len(b.errors) > 0
                 THEN [kind |-> "error", text |-> "bulk push operation had errors"]
                 ELSE NilError]

\* SendBulkPushNotifications swallowing the failures
SendBulkPush_NilError(p, requests, ctx, firstID, delivereds, t) ==
    LET b == PushBulkLoop(BulkState(p, ctx) @@ [errors |-> << >>],
                          requests, firstID, delivereds, t, 1)
    IN  [p |-> b.p, ctx |-> b.ctx, responses |-> b.responses, ids |-> b.ids,
         items |-> b.items, err |-> NilError]

\* PushService.SendBulkPushNotifications: the responses and the aggregate error
PushService_SendBulkPushNotifications(p, requests, ctx, firstID, delivereds, t) ==
    IF Len(requests) = 0
    THEN BulkState(p, ctx) @@
         [err |-> NewValidationError("requests",
                                     "at least one notification request is required")]
    ELSE LET b == PushBulkLoop(BulkState(p, ctx) @@ [errors |-> << >>],
                               requests, firstID, delivereds, t, 1)
         IN  [p |-> b.p, ctx |-> b.ctx, responses |-> b.responses, ids |-> b.ids,
              items |-> b.items,
              err |-> IF Len(b.errors) > 0
                      THEN [kind |-> "error",
                            text |-> "bulk push operation had errors: "
                                     \o JoinErrors(b.errors, 1)]
                      ELSE NilError]

\* PushService.HealthCheck
PushService_HealthCheck(p, ctx) ==
    LET h == MockPushProvider_IsHealthy(p, ctx) IN
    IF IsError(h.err)
    THEN Result(p, h.ctx, NilResponse,
                [kind |-> "error",
                 text |-> "push provider unhealthy: " \o ErrorString(h.err)])
    ELSE h

(***************************************************************************)
(* The inputs the callers draw from.                                       *)
(***************************************************************************)
\* contexts of a single call: never cancelled, cancelled before the call,
\* cancelled after the first wait
Contexts == {NoCancel, 0, 1}

\* contexts of a bulk call: never cancelled, cancelled once the first item
\* is through its two waits
BulkContexts == {NoCancel, 2}

\* uuid.New(): an ID no stored record carries; the k-th call an operation
\* makes gets FreshID(log) + k - 1
FreshID(log) ==
    IF Len(log) = 0 THEN 1
    ELSE 1 + (CHOOSE m \in {log[i].ID : i \in 1..Len(log)} :
                 \A i \in 1..Len(log) : log[i].ID <= m)

EmailRequest(to, subject, text, templateID, data) ==
    [kind |-> "EmailRequest", To |-> to, CC |-> << >>, BCC |-> << >>, From |-> "",
     ReplyTo |-> "", Subject |-> subject, HTMLBody |-> "", TextBody |-> text,
     TemplateID |-> templateID, TemplateData |-> data]

EmailRequests ==
    { NilRequest,
      EmailRequest(<<"a@b.co">>, "Hi", "Body", "", EmptyMap),
      EmailRequest(<<"invalid-email">>, "Hi", "Body", "", EmptyMap),
      EmailRequest(<<"a@b.co">>, "Hi", "Body", "notification",
                   "notification_title" :> "Sale"),
      EmailRequest(<<"a@b.co">>, "", "", "notification", "notification_title" :> ""),
      EmailRequest(<<"a@b.co">>, "Hi", "Body", "missing", EmptyMap) }

BulkEmailRecipients ==
    { [Email |-> "a@b.co", Data |-> "notification_title" :> "VIP"],
      [Email |-> "invalid-email", Data |-> EmptyMap] }

RecipientLists(S) == UNION {[1..n -> S] : n \in 0..MaxBulk}

BulkEmailRequests ==
    { [Recipients |-> rs, From |-> "", ReplyTo |-> "", Subject |-> "Hi",
       HTMLBody |-> "", TextBody |-> "Body", TemplateID |-> t[1], TemplateData |-> t[2]] :
         rs \in RecipientLists(BulkEmailRecipients),
         t \in {<<"", EmptyMap>>, <<"notification", "notification_title" :> "Sale">>} }

\* the orders in which the sends of a bulk call can range over their template data
BulkOrders(request) ==
    LET n == Len(request.Recipients)
        data(i) == mergeTemplateData(request.TemplateData, request.Recipients[i].Data)
    IN  {os \in [1..n -> UNION {RenderOrders(data(i)) : i \in 1..n}] :
            \A i \in 1..n : os[i] \in RenderOrders(data(i))}

\* notifications a caller hands to the provider directly; id is uuid.New()
EmailNotifications(id) ==
    { [ID |-> id, Type |-> "email", Recipient |-> "a@b.co", Subject |-> subject,
       Body |-> "Body", RetryCount |-> 0, MaxRetries |-> 3,
       To |-> <<"a@b.co">>, CC |-> << >>, BCC |-> << >>, From |-> "s@b.co",
       ReplyTo |-> "", HTMLBody |-> "", TextBody |-> "Body"] : subject \in {"Hi", ""} }

GenericNotifications(id, type, recipient) ==
    { [ID |-> id, Type |-> t, Recipient |-> recipient, Subject |-> "Hi", Body |-> "Body",
       Metadata |-> EmptyMap, RetryCount |-> 0, MaxRetries |-> 3] : t \in {type, "other"} }

SMSRequest(phone, country, message, unicode, templateID, data) ==
    [kind |-> "SMSRequest", PhoneNumber |-> phone, CountryCode |-> country,
     Message |-> message, Unicode |-> unicode, TemplateID |-> templateID,
     TemplateData |-> data, Metadata |-> EmptyMap]

SMSRequests ==
    { NilRequest,
      SMSRequest("+1 555-123-4567", "us", "Hello", FALSE, "", EmptyMap),
      SMSRequest("12345", "", "Hello", FALSE, "", EmptyMap),
      SMSRequest("5551234567", "", "", FALSE, "", EmptyMap),
      SMSRequest("5551234567", "", "Hola", TRUE, "reminder", "reminder_text" :> "Pay"),
      SMSRequest("5551234567", "", "Hello", FALSE, "missing", EmptyMap) }

BulkSMSRecipients ==
    { [PhoneNumber |-> "5551234567", CountryCode |-> "",
       Data |-> "reminder_text" :> "Call"],
      [PhoneNumber |-> "12345", CountryCode |-> "", Data |-> EmptyMap] }

BulkSMSRequests ==
    { [Recipients |-> rs, Message |-> "Hello", Unicode |-> FALSE, TemplateID |-> t[1],
       TemplateData |-> t[2], Metadata |-> EmptyMap] :
         rs \in RecipientLists(BulkSMSRecipients),
         t \in {<<"", EmptyMap>>, <<"reminder", "reminder_text" :> "Pay">>} }

\* the delivery outcomes of the sends of a bulk call of n items
Deliveries(n) == [1..n -> BOOLEAN]

SMSNotifications(id) ==
    { [ID |-> id, Type |-> "sms", Recipient |-> "5551234567",
       Subject |-> "SMS Notification", Body |-> message, Metadata |-> EmptyMap,
       RetryCount |-> 0, MaxRetries |-> 3,
       PhoneNumber |-> "5551234567", CountryCode |-> "DE", Message |-> message,
       Unicode |-> FALSE] : message \in {"Hello", ""} }

RECURSIVE Repeat(_, _)
\* strings.Repeat
Repeat(s, n) == IF n = 0 THEN "" ELSE s \o Repeat(s, n - 1)

IOSToken == Repeat("0a1B2c3D", 8)
AndroidToken == Repeat("Ab3_-", 28)
ShortToken == "abc123"

PushData(token, platform, title) ==
    [kind |-> "PushData", DeviceToken |-> token, Platform |-> platform, Title |-> title,
     Icon |-> "", Badge |-> 1, Sound |-> "", Data |-> EmptyMap, ImageURL |-> "",
     ClickAction |-> ""]

PushRequest(type, subject, body, pushData) ==
    [kind |-> "NotificationRequest", Type |-> type, Recipient |-> "user-1",
     Subject |-> subject, Body |-> body, Metadata |-> EmptyMap, MaxRetries |-> 0,
     PushData |-> pushData]

PushRequests ==
    { NilRequest,
      PushRequest("push", "Subject", "Body", PushData(IOSToken, "iOS", "")),
      PushRequest("push", "", "Body", PushData(AndroidToken, "android", "Hi")),
      PushRequest("email", "Subject", "Body", PushData(IOSToken, "ios", "Hi")),
      PushRequest("push", "Subject", "Body", PushData(ShortToken, "ios", "Hi")),
      PushRequest("push", "Subject", "Body", PushData(IOSToken, "blackberry", "Hi")) }

BulkPushRequests ==
    UNION {[1..n -> { PushRequest("push", "Subject", "Body", PushData(IOSToken, "ios", "Hi")),
                      PushRequest("push", "Subject", "Later", PushData(IOSToken, "ios", "Yo")),
                      PushRequest("push", "Subject", "Body", PushData(ShortToken, "ios", "Hi")) }] :
             n \in 0..MaxBulk}

PushNotifications(id) ==
    { [ID |-> id, Type |-> "push", Recipient |-> "user-1", Subject |-> "Subject",
       Body |-> "Body", Metadata |-> EmptyMap, RetryCount |-> 0, MaxRetries |-> 3,
       DeviceToken |-> IOSToken, Platform |-> "ios", Title |-> title, Message |-> title,
       Icon |-> "", Badge |-> 0, Sound |-> "", Data |-> EmptyMap, ImageURL |-> "",
       ClickAction |-> ""] : title \in {"Hi", ""} }

\* the devices callers register and unregister
Devices == {<<IOSToken, "iOS">>, <<AndroidToken, "android">>, <<ShortToken, "ios">>}

\* the values time.Now() can return to a call that starts at `now`
Times == now..MaxTime

(***************************************************************************)
(* The record of the operation that ran last.                              *)
(***************************************************************************)
Ran(op, req, ctx, pre, r) ==
    [op |-> op, req |-> req, ctx |-> ctx, pre |-> pre,
     resp |-> r.resp, err |-> r.err, stages |-> r.stages, handed |-> r.handed,
     responses |-> << >>, items |-> << >>]

RanBulk(op, req, ctx, pre, b) ==
    [op |-> op, req |-> req, ctx |-> ctx, pre |-> pre,
     resp |-> NilResponse, err |-> b.err, stages |-> << >>, handed |-> NoNotification,
     responses |-> b.responses, items |-> b.items]

\* a provider call seen as a service result: it is the send stage alone
Direct(r, ids, handed) == ServiceResult(r, <<"send">>, ids, handed)

\* a call that returns no response, no error
NoResult(p) == ServiceResult(Result(p, NoCancel, NilResponse, NilError), << >>, 0,
                             NoNotification)

None == Ran("none", NilRequest, NoCancel, NilRequest, NoResult(NilRequest))

(***************************************************************************)
(* The provider of the constructed service and its audit log.              *)
(***************************************************************************)
Provider == CASE channel = "email" -> email [] channel = "sms" -> sms [] OTHER -> push

AuditLog(p) ==
    CASE channel = "email" -> p.sentEmails
      [] channel = "sms" -> p.sentSMS
      [] OTHER -> p.sentPushes

\* sends are explored while the audit log is shorter than MaxSent
CanSend == Len(AuditLog(Provider)) < MaxSent

\* the caller is between calls
Idle == last.op = "none"

\* the caller has taken the result of the call that returned
Return ==
    /\ ~Idle
    /\ last' = None
    /\ UNCHANGED <<channel, email, sms, push, now, sends>>

(***************************************************************************)
(* Email channel: the operations.                                          *)
(***************************************************************************)
\* the email provider after r
EmailStep(op, req, ctx, r, ok) ==
    /\ email' = r.p
    /\ sends' = sends + ok
    /\ last' = Ran(op, req, ctx, email, r)
    /\ UNCHANGED <<channel, sms, push, now>>

SendEmail ==
    /\ channel = "email" /\ Idle /\ CanSend
    /\ \E req \in EmailRequests, ctx \in Contexts :
         \E order \in (IF req.kind = "nil" THEN {<< >>} ELSE RenderOrders(req.TemplateData)) :
            \E r \in {EmailService_SendEmail(email, req, ctx, FreshID(email.sentEmails), order)} :
                EmailStep("SendEmail", req, ctx, r, IF IsError(r.err) THEN 0 ELSE 1)

SendBulkEmail ==
    /\ channel = "email" /\ Idle /\ CanSend
    /\ \E req \in BulkEmailRequests, ctx \in BulkContexts :
         \E orders \in BulkOrders(req) :
            \E b \in {EmailService_SendBulkEmail(email, req, ctx, FreshID(email.sentEmails), orders)} :
                /\ email' = b.p
                /\ sends' = sends + Successes(b.items)
                /\ last' = RanBulk("SendBulkEmail", req, ctx, email, b)
                /\ UNCHANGED <<channel, sms, push, now>>

EmailProviderSendEmail ==
    /\ channel = "email" /\ Idle /\ CanSend
    /\ \E n \in EmailNotifications(FreshID(email.sentEmails)), ctx \in {NoCancel, 0} :
         \E r \in {Direct(MockEmailProvider_SendEmail(email, n, ctx), 1, n)} :
             EmailStep("Provider.SendEmail", n, ctx, r, IF IsError(r.err) THEN 0 ELSE 1)

EmailProviderSend ==
    /\ channel = "email" /\ Idle /\ CanSend
    /\ \E n \in GenericNotifications(FreshID(email.sentEmails), "email", "a@b.co"), ctx \in {NoCancel, 0} :
         \E r \in {Direct(MockEmailProvider_Send(email, n, ctx), 1, n)} :
             EmailStep("Provider.Send", n, ctx, r, IF IsError(r.err) THEN 0 ELSE 1)

EmailIsHealthy ==
    /\ channel = "email" /\ Idle
    /\ \E ctx \in {NoCancel, 0} :
         \E r \in {ServiceResult(MockEmailProvider_IsHealthy(email, ctx), <<"health">>, 0,
                                NoNotification)} :
             EmailStep("Provider.IsHealthy", NilRequest, ctx, r, 0)

\* MockEmailProvider.SetHealthy
EmailSetHealthy ==
    /\ channel = "email" /\ Idle
    /\ \E healthy \in BOOLEAN :
         /\ email' = [email EXCEPT !.healthy = healthy]
         /\ last' = Ran("SetHealthy", healthy, NoCancel, email, NoResult(email'))
    /\ UNCHANGED <<channel, sms, push, now, sends>>

\* MockEmailProvider.ClearSentEmails
ClearSentEmails ==
    /\ channel = "email" /\ Idle
    /\ email' = [email EXCEPT !.sentEmails = << >>]
    /\ sends' = 0
    /\ last' = Ran("Clear", NilRequest, NoCancel, email, NoResult(email'))
    /\ UNCHANGED <<channel, sms, push, now>>

(***************************************************************************)
(* SMS channel: the operations.                                            *)
(***************************************************************************)
\* the SMS provider after r
SMSStep(op, req, ctx, r, ok) ==
    /\ sms' = r.p
    /\ sends' = sends + ok
    /\ last' = Ran(op, req, ctx, sms, r)
    /\ UNCHANGED <<channel, email, push, now>>

SendSMS ==
    /\ channel = "sms" /\ Idle /\ CanSend
    /\ \E req \in SMSRequests, ctx \in Contexts, delivered \in BOOLEAN :
         \E order \in (IF req.kind = "nil" THEN {<< >>} ELSE RenderOrders(req.TemplateData)) :
            \E r \in {SMSService_SendSMS(sms, req, ctx, FreshID(sms.sentSMS), order, delivered)} :
                SMSStep("SendSMS", req, ctx, r, IF IsError(r.err) THEN 0 ELSE 1)

SendBulkSMS ==
    /\ channel = "sms" /\ Idle /\ CanSend
    /\ \E req \in BulkSMSRequests, ctx \in BulkContexts :
         \E orders \in BulkOrders(req), delivereds \in Deliveries(Len(req.Recipients)) :
            \E b \in {SMSService_SendBulkSMS(sms, req, ctx, FreshID(sms.sentSMS), orders, delivereds)} :
                /\ sms' = b.p
                /\ sends' = sends + Successes(b.items)
                /\ last' = RanBulk("SendBulkSMS", req, ctx, sms, b)
                /\ UNCHANGED <<channel, email, push, now>>

SMSProviderSendSMS ==
    /\ channel = "sms" /\ Idle /\ CanSend
    /\ \E n \in SMSNotifications(FreshID(sms.sentSMS)), ctx \in {NoCancel, 0}, delivered \in BOOLEAN :
         \E r \in {Direct(MockSMSProvider_SendSMS(sms, n, ctx, delivered), 1, n)} :
             SMSStep("Provider.SendSMS", n, ctx, r, IF IsError(r.err) THEN 0 ELSE 1)

SMSProviderSend ==
    /\ channel = "sms" /\ Idle /\ CanSend
    /\ \E n \in GenericNotifications(FreshID(sms.sentSMS), "sms", "5551234567"),
          ctx \in {NoCancel, 0}, delivered \in BOOLEAN :
         \E r \in {Direct(MockSMSProvider_Send(sms, n, ctx, delivered), 1, n)} :
             SMSStep("Provider.Send", n, ctx, r, IF IsError(r.err) THEN 0 ELSE 1)

SMSIsHealthy ==
    /\ channel = "sms" /\ Idle
    /\ \E ctx \in {NoCancel, 0} :
         \E r \in {ServiceResult(MockSMSProvider_IsHealthy(sms, ctx), <<"health">>, 0,
                                NoNotification)} :
             SMSStep("Provider.IsHealthy", NilRequest, ctx, r, 0)

\* MockSMSProvider.SetHealthy
SMSSetHealthy ==
    /\ channel = "sms" /\ Idle
    /\ \E healthy \in BOOLEAN :
         /\ sms' = [sms EXCEPT !.healthy = healthy]
         /\ last' = Ran("SetHealthy", healthy, NoCancel, sms, NoResult(sms'))
    /\ UNCHANGED <<channel, email, push, now, sends>>

\* MockSMSProvider.ClearSentSMS
ClearSentSMS ==
    /\ channel = "sms" /\ Idle
    /\ sms' = [sms EXCEPT !.sentSMS = << >>]
    /\ sends' = 0
    /\ last' = Ran("Clear", NilRequest, NoCancel, sms, NoResult(sms'))
    /\ UNCHANGED <<channel, email, push, now>>

(***************************************************************************)
(* Push channel: the operations.                                           *)
(***************************************************************************)
\* the push provider after r, which read the clock at t
PushStep(op, req, ctx, r, ok, t) ==
    /\ push' = r.p
    /\ sends' = sends + ok
    /\ now' = t
    /\ last' = Ran(op, req, ctx, push, r)
    /\ UNCHANGED <<channel, email, sms>>

SendPushNotification ==
    /\ channel = "push" /\ Idle /\ CanSend
    /\ \E req \in PushRequests, ctx \in {NoCancel, 0}, delivered \in BOOLEAN, t \in Times :
         \E r \in {PushService_SendPushNotification(push, req, ctx, FreshID(push.sentPushes), delivered, t)} :
             PushStep("SendPushNotification", req, ctx, r,
                      IF IsError(r.err) THEN 0 ELSE 1, t)

SendBulkPushNotifications ==
    /\ channel = "push" /\ Idle /\ CanSend
    /\ \E reqs \in BulkPushRequests, ctx \in {NoCancel, 1}, t \in Times :
         \E delivereds \in Deliveries(Len(reqs)) :
            \E b \in {PushService_SendBulkPushNotifications(push, reqs, ctx, FreshID(push.sentPushes),
                                                           delivereds, t)} :
                /\ push' = b.p
                /\ sends' = sends + Successes(b.items)
                /\ now' = t
                /\ last' = RanBulk("SendBulkPushNotifications", reqs, ctx, push, b)
                /\ UNCHANGED <<channel, email, sms>>

PushProviderSendPush ==
    /\ channel = "push" /\ Idle /\ CanSend
    /\ \E n \in PushNotifications(FreshID(push.sentPushes)), ctx \in {NoCancel, 0},
          delivered \in BOOLEAN, t \in Times :
         \E r \in {Direct(MockPushProvider_SendPush(push, n, ctx, delivered, t), 1, n)} :
             PushStep("Provider.SendPush", n, ctx, r, IF IsError(r.err) THEN 0 ELSE 1, t)

PushProviderSend ==
    /\ channel = "push" /\ Idle /\ CanSend
    /\ \E n \in GenericNotifications(FreshID(push.sentPushes), "push", AndroidToken),
          ctx \in {NoCancel, 0}, delivered \in BOOLEAN, t \in Times :
         \E r \in {Direct(MockPushProvider_Send(push, n, ctx, delivered, t), 1, n)} :
             PushStep("Provider.Send", n, ctx, r, IF IsError(r.err) THEN 0 ELSE 1, t)

PushIsHealthy ==
    /\ channel = "push" /\ Idle
    /\ \E ctx \in {NoCancel, 0} :
         \E r \in {ServiceResult(MockPushProvider_IsHealthy(push, ctx), <<"health">>, 0,
                                NoNotification)} :
             PushStep("Provider.IsHealthy", NilRequest, ctx, r, 0, now)

PushHealthCheck ==
    /\ channel = "push" /\ Idle
    /\ \E ctx \in {NoCancel, 0} :
         \E r \in {ServiceResult(PushService_HealthCheck(push, ctx), <<"health">>, 0,
                                NoNotification)} :
             PushStep("HealthCheck", NilRequest, ctx, r, 0, now)

RegisterDevice ==
    /\ channel = "push" /\ Idle
    /\ \E d \in Devices, t \in Times :
         \E r \in {ServiceResult(MockPushProvider_RegisterDevice(push, d[1], d[2], t),
                                << >>, 0, NoNotification)} :
             PushStep("RegisterDevice", d, NoCancel, r, 0, t)

UnregisterDevice ==
    /\ channel = "push" /\ Idle
    /\ \E d \in Devices :
         \E r \in {ServiceResult(MockPushProvider_UnregisterDevice(push, d[1]),
                                << >>, 0, NoNotification)} :
             PushStep("UnregisterDevice", d, NoCancel, r, 0, now)

\* MockPushProvider.SetHealthy
PushSetHealthy ==
    /\ channel = "push" /\ Idle
    /\ \E healthy \in BOOLEAN :
         /\ push' = [push EXCEPT !.healthy = healthy]
         /\ last' = Ran("SetHealthy", healthy, NoCancel, push, NoResult(push'))
    /\ UNCHANGED <<channel, email, sms, now, sends>>

\* MockPushProvider.ClearSentPushes
ClearSentPushes ==
    /\ channel = "push" /\ Idle
    /\ push' = [push EXCEPT !.sentPushes = << >>]
    /\ sends' = 0
    /\ last' = Ran("Clear", NilRequest, NoCancel, push, NoResult(push'))
    /\ UNCHANGED <<channel, email, sms, now>>

(***************************************************************************)
(* What the properties read of a bulk call.                                *)
(***************************************************************************)
\* the items of the bulk call that returned which failed
FailedItems == {i \in 1..Len(last.items) : IsError(last.items[i].err)}

\* s is the sequence t with the elements at the positions in drop left out
RECURSIVE Without(_, _, _)
Without(t, drop, i) ==
    IF i > Len(t) THEN << >>
    ELSE IF i \in drop THEN Without(t, drop, i + 1)
    ELSE <<t[i]>> \o Without(t, drop, i + 1)

(***************************************************************************)
(* The specification.                                                      *)
(***************************************************************************)
Init ==
    /\ channel \in {"email", "sms", "push"}
    /\ email = NewMockEmailProvider
    /\ sms = NewMockSMSProvider
    /\ push = NewMockPushProvider
    /\ now = 0
    /\ sends = 0
    /\ last = None

Next ==
    \/ SendEmail
    \/ SendBulkEmail
    \/ EmailProviderSendEmail
    \/ EmailProviderSend
    \/ EmailIsHealthy
    \/ EmailSetHealthy
    \/ ClearSentEmails
    \/ SendSMS
    \/ SendBulkSMS
    \/ SMSProviderSendSMS
    \/ SMSProviderSend
    \/ SMSIsHealthy
    \/ SMSSetHealthy
    \/ ClearSentSMS
    \/ SendPushNotification
    \/ SendBulkPushNotifications
    \/ PushProviderSendPush
    \/ PushProviderSend
    \/ PushIsHealthy
    \/ PushHealthCheck
    \/ RegisterDevice
    \/ UnregisterDevice
    \/ PushSetHealthy
    \/ ClearSentPushes
    \/ Return

Spec == Init /\ [][Next]_vars


(***************************************************************************)
(* Bulk sends.                                                             *)
(***************************************************************************)
\* the recipient a notification handed to the provider is addressed to
HandedTo(n) == IF channel = "email" THEN n.To[1] ELSE n.PhoneNumber
RecipientAddress(r) == IF channel = "email" THEN r.Email ELSE r.PhoneNumber

\* C1: SendBulkEmail and SendBulkSMS with N >= 1 recipients return exactly N
\* entries and a nil error, however many recipients fail; the i-th entry is
\* the i-th recipient's: the response of its single send, with status sent,
\* if that send succeeded, else a failed entry carrying the send's non-empty
\* error string; and every recipient's send is attempted, whatever happened
\* to the recipients before it.
C1_BulkOneEntryPerRecipient ==
    (last.op \in {"SendBulkEmail", "SendBulkSMS"} /\ Len(last.req.Recipients) >= 1) =>
        /\ ~IsError(last.err)
        /\ Len(last.responses) = Len(last.req.Recipients)
        /\ Len(last.items) = Len(last.req.Recipients)
        /\ \A i \in 1..Len(last.req.Recipients) :
              LET item == last.items[i]
                  entry == last.responses[i]
              IN  /\ Len(item.stages) >= 1 /\ item.stages[1] = "validate"
                  /\ ~IsError(item.err) =>
                        /\ entry = item.resp
                        /\ entry.Status = StatusSent
                        /\ entry.ID = item.handed.ID
                        /\ HandedTo(item.handed) = RecipientAddress(last.req.Recipients[i])
                  /\ IsError(item.err) =>
                        /\ entry.Status = StatusFailed
                        /\ entry.Error # ""
                        /\ entry.Error = ErrorString(item.err)

\* a bulk SMS send of two recipients whose first failed and whose second was sent
C1_Witness ==
    /\ last.op = "SendBulkSMS"
    /\ Len(last.req.Recipients) = 2
    /\ IsError(last.items[1].err)
    /\ ~IsError(last.items[2].err)
    /\ last.responses[1].Status = StatusFailed
    /\ last.responses[2].Status = StatusSent

IsBulk(op) == op \in {"SendBulkEmail", "SendBulkSMS", "SendBulkPushNotifications"}

\* the number of requests of the bulk call that returned
BulkSize ==
    IF last.op = "SendBulkPushNotifications" THEN Len(last.req)
    ELSE Len(last.req.Recipients)

\* C2, as the specification states it: in every bulk operation, the push one
\* included, the response list is as long as the request list, a failure
\* being captured as a failed entry.
C2_EveryBulkOneEntryPerRequest ==
    (IsBulk(last.op) /\ BulkSize >= 1) => Len(last.responses) = BulkSize

\* C2, as the code has it: SendBulkEmail and SendBulkSMS return one entry per
\* recipient, a failed entry for each failure; SendBulkPushNotifications
\* returns no entry for a failed request, so its list holds the responses of
\* the successful requests only and is as long as the request list exactly
\* when no request failed.
C2_FailedEntriesOnlyInEmailAndSMS ==
    (IsBulk(last.op) /\ BulkSize >= 1) =>
        LET failedEntries == {i \in 1..Len(last.responses) :
                                 last.responses[i].Status = StatusFailed}
        IN  IF last.op = "SendBulkPushNotifications"
            THEN /\ Len(last.responses) = BulkSize - Cardinality(FailedItems)
                 /\ failedEntries = {}
                 /\ (Len(last.responses) = BulkSize) <=> (FailedItems = {})
            ELSE /\ Len(last.responses) = BulkSize
                 /\ failedEntries = FailedItems

\* a bulk push send of two requests, one of which failed: one response
C2_Witness ==
    /\ last.op = "SendBulkPushNotifications"
    /\ Len(last.req) = 2
    /\ Cardinality(FailedItems) = 1
    /\ Len(last.responses) = 1

\* C3: SendBulkPushNotifications attempts every request, in order, also
\* after a failure; its error is non-nil exactly when at least one request
\* failed; the responses are those of the successful requests in request
\* order, so with no failure they are the requests' responses one for one.
C3_BulkPushAttemptsAll ==
    (last.op = "SendBulkPushNotifications" /\ Len(last.req) >= 1) =>
        /\ Len(last.items) = Len(last.req)
        /\ \A i \in 1..Len(last.items) :
              /\ Len(last.items[i].stages) >= 1 /\ last.items[i].stages[1] = "validate"
              /\ ~IsError(last.items[i].err) =>
                    /\ last.items[i].handed.Message = last.req[i].Body
                    /\ last.items[i].resp.ID = last.items[i].handed.ID
        /\ IsError(last.err) <=> (FailedItems # {})
        /\ last.responses =
              Without([i \in 1..Len(last.items) |-> last.items[i].resp], FailedItems, 1)
        /\ (FailedItems = {}) =>
              /\ ~IsError(last.err)
              /\ Len(last.responses) = Len(last.req)
              /\ \A i \in 1..Len(last.req) : last.responses[i] = last.items[i].resp

\* a bulk push send whose first request failed and whose second was sent
C3_Witness ==
    /\ last.op = "SendBulkPushNotifications"
    /\ Len(last.req) = 2
    /\ IsError(last.items[1].err)
    /\ ~IsError(last.items[2].err)
    /\ IsError(last.err)
    /\ Len(last.responses) = 1


(***************************************************************************)
(* Provider calls: health, cancellation, the audit log.                    *)
(***************************************************************************)
TypedSends == {"Provider.SendEmail", "Provider.SendSMS", "Provider.SendPush"}
ProviderCalls == TypedSends \cup {"Provider.Send", "Provider.IsHealthy"}
SingleSends ==
    TypedSends \cup {"Provider.Send", "SendEmail", "SendSMS", "SendPushNotification"}

\* the provider p finds nothing wrong with the typed notification n
ValidForSend(p, n) ==
    CASE channel = "email" -> ~IsError(validateEmailNotification(n))
      [] channel = "sms" -> ~IsError(validateSMSNotification(n))
      [] OTHER -> ~IsError(validatePushNotification(p, formatForPlatform(p, n)))

\* C4: while a provider is unhealthy, every IsHealthy, Send and typed send
\* call on it fails with ProviderUnavailable, whatever the notification
\* (valid or not) and the context (cancelled or not), and leaves the provider
\* (audit log, device registry) as it was; SetHealthy changes the health flag
\* alone; and a healthy provider sends a valid notification under a live
\* context, also when it was unhealthy before.
C4_UnhealthyFailsFirst ==
    /\ (last.op \in ProviderCalls /\ ~last.pre.healthy) =>
          /\ CodeOf(last.err) = ErrorCodeProviderUnavailable
          /\ ~IsResponse(last.resp)
          /\ Provider = last.pre
    /\ (last.op = "SetHealthy") => Provider = [last.pre EXCEPT !.healthy = last.req]
    /\ (last.op \in TypedSends /\ last.pre.healthy
          /\ ValidForSend(last.pre, last.req) /\ ~CtxDone(last.ctx)) =>
          /\ ~IsError(last.err)
          /\ last.resp.Status = StatusSent

\* an unhealthy push provider with a record and a device was handed an
\* invalid notification under a cancelled context
C4_Witness ==
    /\ last.op = "Provider.SendPush"
    /\ ~last.pre.healthy
    /\ CtxDone(last.ctx)
    /\ ~ValidForSend(last.pre, last.req)
    /\ Len(push.sentPushes) >= 1
    /\ IOSToken \in DOMAIN push.deviceTokens
    /\ CodeOf(last.err) = ErrorCodeProviderUnavailable

\* C5: a call that reaches a simulated-latency wait under a context that is
\* already cancelled (a health check of a healthy provider, a typed send of
\* a valid notification by a healthy provider) fails with Timeout; and a
\* send that fails with Timeout, at the provider or through the service,
\* leaves the provider as it was: audit log and device registry, last_seen
\* included.
C5_CancelledBeforeLatency ==
    /\ (last.op = "Provider.IsHealthy" /\ last.pre.healthy /\ CtxDone(last.ctx)) =>
          CodeOf(last.err) = ErrorCodeTimeout
    /\ (last.op \in TypedSends /\ last.pre.healthy /\ CtxDone(last.ctx)
          /\ ValidForSend(last.pre, last.req)) =>
          /\ CodeOf(last.err) = ErrorCodeTimeout
          /\ ~IsResponse(last.resp)
    /\ (last.op \in SingleSends \cup {"Provider.IsHealthy"}
          /\ CodeOf(last.err) = ErrorCodeTimeout) =>
          Provider = last.pre

\* a push send to a registered device timed out later than the device was
\* last seen
C5_Witness ==
    /\ last.op = "Provider.SendPush"
    /\ CodeOf(last.err) = ErrorCodeTimeout
    /\ last.req.DeviceToken \in DOMAIN push.deviceTokens
    /\ push.deviceTokens[last.req.DeviceToken].LastSeen < now
    /\ Len(push.sentPushes) >= 1

\* the items of the bulk call that returned which succeeded, in order
SentItems == Without(last.items, FailedItems, 1)

\* C6: the audit log is append-only.  A successful send appends exactly one
\* record, whose ID is the notification's and the response's; a failing send
\* appends nothing; a bulk send appends one record per successful item, in
\* order; no call but Clear changes or removes a record; and the log is as
\* long as the number of successful sends since construction or the last
\* Clear.
C6_AuditLogAppendOnly ==
    LET log == AuditLog(Provider) IN
    /\ Len(log) = sends
    /\ ~Idle =>
          LET pre == AuditLog(last.pre) IN
          CASE last.op = "Clear" -> log = << >>
            [] last.op \in SingleSends /\ ~IsError(last.err) ->
                  /\ log = Append(pre, log[Len(log)])
                  /\ log[Len(log)].ID = last.handed.ID
                  /\ log[Len(log)].ID = last.resp.ID
            [] IsBulk(last.op) ->
                  /\ Len(log) = Len(pre) + Len(SentItems)
                  /\ SubSeq(log, 1, Len(pre)) = pre
                  /\ \A k \in 1..Len(SentItems) :
                        /\ log[Len(pre) + k].ID = SentItems[k].handed.ID
                        /\ log[Len(pre) + k].ID = SentItems[k].resp.ID
            [] OTHER -> log = pre

\* a send was refused with a record in the log, and a send added a second
\* record to a log
C6_Witness ==
    /\ last.op = "SendEmail"
    /\ ~IsError(last.err)
    /\ Len(email.sentEmails) = 2
    /\ Len(last.pre.sentEmails) = 1
    /\ sends = 2


(***************************************************************************)
(* The stages of a single send through a service.                          *)
(***************************************************************************)
Range(f) == {f[i] : i \in DOMAIN f}

\* stage a comes before stage b in the sequence of stages
Before(stages, a, b) ==
    \E i, j \in 1..Len(stages) : i < j /\ stages[i] = a /\ stages[j] = b

\* what the stages of the email or SMS send that returned find, each on its
\* own: the request's validation error, the health check's result, whether
\* the template is missing, and the provider's typed send of a notification
RequestError ==
    IF channel = "email" THEN validateEmailRequest(last.req)
    ELSE validateSMSRequest(last.req)
HealthResult ==
    IF channel = "email" THEN MockEmailProvider_IsHealthy(last.pre, last.ctx)
    ELSE MockSMSProvider_IsHealthy(last.pre, last.ctx)
TemplateError ==
    IF last.req.TemplateID = "" THEN NilError
    ELSE IF channel = "email" THEN EmailGetTemplateError(last.pre, last.req.TemplateID)
    ELSE SMSGetTemplateError(last.pre, last.req.TemplateID)
ProviderSend(n, ctx) ==
    IF channel = "email" THEN MockEmailProvider_SendEmail(last.pre, n, ctx)
    ELSE MockSMSProvider_SendSMS(last.pre, n, ctx, TRUE)

\* C7: the outcome of EmailService.SendEmail and SMSService.SendSMS is that
\* of the first failing stage in the order validation (ValidationFailed),
\* health check (ProviderUnavailable or Timeout), template lookup
\* (TemplateNotFound), provider send; no later stage runs; the provider's
\* error comes back as the provider gave it; and a failing call leaves the
\* audit log as it was.
C7_FirstFailingStageDecides ==
    (last.op \in {"SendEmail", "SendSMS"}) =>
        /\ IsError(last.err) => AuditLog(Provider) = AuditLog(last.pre)
        /\ IF IsError(RequestError)
           THEN /\ last.stages = <<"validate">>
                /\ last.err = RequestError
                /\ CodeOf(last.err) = ErrorCodeValidationFailed
           ELSE IF IsError(HealthResult.err)
           THEN /\ last.stages = <<"validate", "health">>
                /\ last.err = HealthResult.err
                /\ CodeOf(last.err) \in {ErrorCodeProviderUnavailable, ErrorCodeTimeout}
           ELSE IF IsError(TemplateError)
           THEN /\ last.stages = <<"validate", "health", "template">>
                /\ last.err = TemplateError
                /\ CodeOf(last.err) = ErrorCodeTemplateNotFound
           ELSE /\ last.stages = (IF last.req.TemplateID = ""
                                  THEN <<"validate", "health", "send">>
                                  ELSE <<"validate", "health", "template", "send">>)
                /\ last.err = ProviderSend(last.handed, HealthResult.ctx).err

\* an email whose template rendered an empty subject passed validation,
\* health check and template lookup and was refused by the provider's send
C7_Witness ==
    /\ last.op = "SendEmail"
    /\ last.stages = <<"validate", "health", "template", "send">>
    /\ CodeOf(last.err) = ErrorCodeValidationFailed
    /\ last.handed.Subject = ""

Services == {"SendEmail", "SendSMS", "SendPushNotification"}

\* C8, as the specification states it: each of the three services queries
\* the provider's health after validation and before the provider's send,
\* and a send that follows no health check never happens.
C8_HealthCheckInEveryService ==
    (last.op \in Services /\ "send" \in Range(last.stages)) =>
        /\ Before(last.stages, "validate", "health")
        /\ Before(last.stages, "health", "send")

\* C8: EmailService and SMSService query the provider's health right after
\* validation and before the provider's send, and do not invoke the send
\* when the health check fails.  PushService.SendPushNotification queries no
\* health: with an unhealthy provider a valid request reaches the provider's
\* send, which refuses it with ProviderUnavailable and stores nothing.
C8_HealthCheckInEmailAndSMS ==
    /\ (last.op \in {"SendEmail", "SendSMS"}) =>
          /\ Len(last.stages) >= 2 =>
                last.stages[1] = "validate" /\ last.stages[2] = "health"
          /\ "send" \in Range(last.stages) =>
                /\ Before(last.stages, "health", "send")
                /\ ~IsError(HealthResult.err)
          /\ (~IsError(RequestError) /\ IsError(HealthResult.err)) =>
                /\ "send" \notin Range(last.stages)
                /\ last.handed = NoNotification
                /\ last.err = HealthResult.err
    /\ (last.op = "SendPushNotification") =>
          /\ "health" \notin Range(last.stages)
          /\ ("send" \in Range(last.stages) /\ ~last.pre.healthy) =>
                /\ CodeOf(last.err) = ErrorCodeProviderUnavailable
                /\ Provider = last.pre

\* a push request went through the service to the send of an unhealthy
\* provider
C8_Witness ==
    /\ last.op = "SendPushNotification"
    /\ ~last.pre.healthy
    /\ last.stages = <<"validate", "preprocess", "token", "send">>
    /\ CodeOf(last.err) = ErrorCodeProviderUnavailable


(***************************************************************************)
(* Templates and stored status.                                            *)
(***************************************************************************)
\* the newest record of the audit log
Newest == AuditLog(Provider)[Len(AuditLog(Provider))]

\* the content (subject and bodies, or message and flag) of a rendered
\* template, of a notification and of a stored record
EmailContent(x) == <<x.Subject, x.HTMLBody, x.TextBody>>
SMSContent(x) == <<x.Message, x.Unicode>>

\* C9: SendEmail and SendSMS with a template ID, a valid request and a
\* provider that passes the health check: an unknown template gives
\* TemplateNotFound and leaves the audit log as it was; a known one is
\* rendered with the request's template data, and the rendered content
\* (email: subject, HTML body, text body; SMS: message and unicode flag)
\* replaces the request's own values in the notification handed to the
\* provider and in the record stored for it.
C9_TemplateContentOverwrites ==
    (/\ last.op \in {"SendEmail", "SendSMS"}
     /\ ~IsError(RequestError)
     /\ ~IsError(HealthResult.err)
     /\ last.req.TemplateID # "") =>
        IF last.req.TemplateID \notin DOMAIN last.pre.templates
        THEN /\ CodeOf(last.err) = ErrorCodeTemplateNotFound
             /\ ~IsResponse(last.resp)
             /\ AuditLog(Provider) = AuditLog(last.pre)
        ELSE \E order \in RenderOrders(last.req.TemplateData) :
                IF channel = "email"
                THEN LET t == MockEmailProvider_RenderTemplate(
                                  last.pre, last.req.TemplateID,
                                  last.req.TemplateData, order)
                     IN  /\ EmailContent(last.handed) = EmailContent(t)
                         /\ ~IsError(last.err) => EmailContent(Newest) = EmailContent(t)
                ELSE LET t == MockSMSProvider_RenderTemplate(
                                  last.pre, last.req.TemplateID,
                                  last.req.TemplateData, order)
                     IN  /\ SMSContent(last.handed) = SMSContent(t)
                         /\ ~IsError(last.err) => SMSContent(Newest) = SMSContent(t)

\* an SMS request with its own message, flagged unicode, and the template
\* "reminder" was stored with the template's text and flag
C9_Witness ==
    /\ last.op = "SendSMS"
    /\ ~IsError(last.err)
    /\ last.req.TemplateID = "reminder"
    /\ last.req.Message = "Hola" /\ last.req.Unicode
    /\ Newest.Message = "Reminder: Pay. Reply STOP to opt out."
    /\ ~Newest.Unicode

\* the stored status says whether the record has a delivery time
StatusMatchesDelivery(log) ==
    \A i \in 1..Len(log) :
        /\ log[i].Status = "delivered" <=> log[i].DeliveredAt
        /\ log[i].Status = "sent" <=> ~log[i].DeliveredAt

\* C10: every successful send, single or as an item of a bulk call, returns
\* a response with status Sent whatever became of the simulated delivery;
\* an SMS or push record has the status "delivered" exactly when its
\* delivery time is set and "sent" exactly when it is not; every email
\* record has the status "sent".
C10_SentWhateverTheDelivery ==
    /\ (last.op \in SingleSends /\ ~IsError(last.err)) =>
          last.resp.Status = StatusSent
    /\ IsBulk(last.op) =>
          /\ \A i \in 1..Len(last.items) :
                ~IsError(last.items[i].err) => last.items[i].resp.Status = StatusSent
          /\ \A k \in 1..Len(SentItems) :
                \E j \in 1..Len(last.responses) : last.responses[j] = SentItems[k].resp
    /\ StatusMatchesDelivery(sms.sentSMS)
    /\ StatusMatchesDelivery(push.sentPushes)
    /\ \A i \in 1..Len(email.sentEmails) : email.sentEmails[i].Status = "sent"

\* a push send that succeeded and whose simulated delivery did not: the
\* response says Sent, the record "sent" with no delivery time
C10_Witness ==
    /\ last.op = "SendPushNotification"
    /\ ~IsError(last.err)
    /\ last.resp.Status = StatusSent
    /\ Newest.Status = "sent"
    /\ ~Newest.DeliveredAt


(***************************************************************************)
(* The push device registry.                                               *)
(***************************************************************************)
PushSends == {"SendPushNotification", "Provider.SendPush", "Provider.Send"}

\* the device token of the notification the push send that returned handed
\* to SendPush
SentToken ==
    IF last.op = "Provider.Send" THEN convertToPushNotification(last.handed).DeviceToken
    ELSE last.handed.DeviceToken

\* the registries r and q hold the same entry for every token but those in ts
SameBut(r, q, ts) ==
    /\ DOMAIN r \ ts = DOMAIN q \ ts
    /\ \A k \in DOMAIN r \ ts : r[k] = q[k]

\* C11: the device registry changes by successful RegisterDevice and
\* UnregisterDevice calls alone, so a token is registered exactly when its
\* latest successful RegisterDevice is followed by no successful
\* UnregisterDevice.  A successful RegisterDevice adds (or replaces) the
\* token's entry and no other; one with a token invalid for the platform
\* fails and changes nothing; a successful UnregisterDevice removes the
\* token's entry and no other; one of an absent token fails with NotFound
\* and changes nothing; a send keeps the set of entries, and changes only
\* last_seen (and active) of the sent token's entry and only if it succeeds;
\* no other call changes the registry.
C11_DeviceRegistry ==
    (channel = "push" /\ ~Idle) =>
        LET reg == push.deviceTokens
            pre == last.pre.deviceTokens
        IN  CASE last.op = "RegisterDevice" ->
                   IF IsError(MockPushProvider_ValidateDeviceToken(last.req[1], last.req[2]))
                   THEN IsError(last.err) /\ reg = pre
                   ELSE /\ ~IsError(last.err)
                        /\ last.req[1] \in DOMAIN reg
                        /\ reg[last.req[1]].Token = last.req[1]
                        /\ reg[last.req[1]].LastSeen = now
                        /\ SameBut(reg, pre, {last.req[1]})
              [] last.op = "UnregisterDevice" ->
                   IF last.req[1] \notin DOMAIN pre
                   THEN CodeOf(last.err) = ErrorCodeNotFound /\ reg = pre
                   ELSE /\ ~IsError(last.err)
                        /\ last.req[1] \notin DOMAIN reg
                        /\ SameBut(reg, pre, {last.req[1]})
              [] last.op \in PushSends ->
                   IF IsError(last.err) THEN reg = pre
                   ELSE /\ DOMAIN reg = DOMAIN pre
                        /\ SameBut(reg, pre, {SentToken})
                        /\ SentToken \in DOMAIN pre =>
                              reg[SentToken] = [pre[SentToken] EXCEPT !.LastSeen = now,
                                                                      !.Active = TRUE]
              [] last.op = "SendBulkPushNotifications" ->
                   /\ DOMAIN reg = DOMAIN pre
                   /\ SameBut(reg, pre,
                              {SentItems[k].handed.DeviceToken : k \in 1..Len(SentItems)})
              [] OTHER -> reg = pre

\* with two devices registered earlier, a send to one of them succeeded:
\* its entry alone has the new last_seen
C11_Witness ==
    /\ last.op = "SendPushNotification"
    /\ ~IsError(last.err)
    /\ DOMAIN push.deviceTokens = {IOSToken, AndroidToken}
    /\ SentToken = AndroidToken
    /\ last.pre.deviceTokens[AndroidToken].LastSeen < now
    /\ push.deviceTokens[AndroidToken].LastSeen = now
    /\ push.deviceTokens[IOSToken].LastSeen < now


(***************************************************************************)
(* Formatting for the platform: one SendPush of a constructed provider,    *)
(* over titles and messages of lengths around every platform's limits.     *)
(***************************************************************************)
\* how far beyond a platform's limit the longest title and message go
Over == 80

RECURSIVE Filler(_, _)
\* s repeated, by doubling, until it has n bytes or more
Filler(s, n) == IF Len(s) >= n THEN s ELSE Filler(s \o s, n)
\* a text of n bytes, no two neighbours alike
Text(n) == SubSeq(Filler("0123456789", n), 1, n)

LengthsNear(max) == {0, 1, max - 1, max, max + 1, max + Over}
TitleLengths ==
    UNION {LengthsNear(PushPlatformConfigs[k].MaxTitleLength) : k \in DOMAIN PushPlatformConfigs}
MessageLengths ==
    UNION {LengthsNear(PushPlatformConfigs[k].MaxBodyLength) : k \in DOMAIN PushPlatformConfigs}

WebToken == Repeat("web-token-", 5)

\* the device token and platform pairs of the notifications
FormatTargets ==
    { <<IOSToken, "ios">>, <<AndroidToken, "android">>, <<WebToken, "web">>,
      <<ShortToken, "ios">>, <<IOSToken, "blackberry">> }

FormatNotifications(id) ==
    { [ID |-> id, Type |-> "push", Recipient |-> "user-1", Subject |-> "Subject",
       Body |-> "Body", Metadata |-> EmptyMap, RetryCount |-> 0, MaxRetries |-> 3,
       DeviceToken |-> target[1], Platform |-> target[2],
       Title |-> Text(tl), Message |-> Text(ml),
       Icon |-> "", Badge |-> badge, Sound |-> "", Data |-> EmptyMap, ImageURL |-> "",
       ClickAction |-> ""] :
         target \in FormatTargets, tl \in TitleLengths, ml \in MessageLengths,
         badge \in {0, 5} }

\* MockPushProvider.SendPush on the provider as constructed
FormatSendPush ==
    /\ channel = "push" /\ Idle /\ push = NewMockPushProvider
    /\ \E n \in FormatNotifications(FreshID(push.sentPushes)), delivered \in BOOLEAN :
         \E r \in {Direct(MockPushProvider_SendPush(push, n, NoCancel, delivered, now), 1, n)} :
             PushStep("Provider.SendPush", n, NoCancel, r, IF IsError(r.err) THEN 0 ELSE 1, now)

FormatInit == Init /\ channel = "push"
FormatNext == FormatSendPush \/ Return
FormatSpec == FormatInit /\ [][FormatNext]_vars

\* the errors validatePushNotification has for a title or message beyond the
\* limit of some platform
TooLongErrors ==
    UNION { { NewValidationError("title", "title too long (max "
                  \o Itoa(PushPlatformConfigs[k].MaxTitleLength) \o " characters)"),
              NewValidationError("message", "message too long (max "
                  \o Itoa(PushPlatformConfigs[k].MaxBodyLength) \o " characters)") } :
            k \in DOMAIN PushPlatformConfigs }

\* C12: SendPush formats before it validates, so no SendPush returns a
\* "title too long" or "message too long" error, whatever the lengths; a
\* healthy provider under a context that is not cancelled refuses a
\* notification exactly when title and message are both empty, the device
\* token is invalid for the platform, or the platform is unsupported.
C12_LengthErrorsUnreachable ==
    (last.op = "Provider.SendPush") =>
        /\ last.err \notin TooLongErrors
        /\ (last.pre.healthy /\ ~CtxDone(last.ctx)) =>
              (IsError(last.err) <=>
                  \/ last.req.Title = "" /\ last.req.Message = ""
                  \/ IsError(MockPushProvider_ValidateDeviceToken(last.req.DeviceToken,
                                                                  last.req.Platform))
                  \/ ~Contains(GetSupportedPlatforms, ToLower(last.req.Platform)))

\* a title and a message both beyond the platform's limits were sent
C12_Witness ==
    /\ last.op = "Provider.SendPush"
    /\ ~IsError(last.err)
    /\ last.req.Platform = "web"
    /\ Len(last.req.Title) = 50 + Over
    /\ Len(last.req.Message) = 120 + Over


\* the limits the platforms have for title and body
TitleLimit == ("ios" :> 50) @@ ("android" :> 65) @@ ("web" :> 50)
BodyLimit == ("ios" :> 200) @@ ("android" :> 240) @@ ("web" :> 120)

\* what is stored of a submitted text under a limit
StoredOf(text, limit) ==
    IF Len(text) > limit THEN SubSeq(text, 1, limit - 3) \o "..." ELSE text

C14_BadgeZeroWhereUnsupported ==
    \A i \in 1..Len(push.sentPushes) :
        LET rec == push.sentPushes[i] IN
        ~PushPlatformConfigs[ToLower(rec.Platform)].SupportsBadge => rec.Badge = 0


(***************************************************************************)
(* Template operations of the three providers.  A template the caller gets *)
(* or renders comes back as the response of the call.                      *)
(***************************************************************************)
TemplateResponse(t) == [kind |-> "Template", template |-> t]

TemplateNotFound(templateID) ==
    NewNotificationError(ErrorCodeTemplateNotFound, "template not found: " \o templateID)

\* GetTemplate of any of the providers
GetTemplate(p, templateID) ==
    IF templateID \notin DOMAIN p.templates
    THEN Result(p, NoCancel, NilResponse, TemplateNotFound(templateID))
    ELSE Result(p, NoCancel, TemplateResponse(p.templates[templateID]), NilError)

\* MockPushProvider.RenderTemplate, for a template GetTemplate found
MockPushProvider_RenderTemplate(p, templateID, data, order) ==
    LET t == p.templates[templateID]
    IN  [t EXCEPT !.Title = replaceVariables(t.Title, data, order[1]),
                  !.Body = replaceVariables(t.Body, data, order[2])]

\* the clone RenderTemplate builds of a stored template
Rendered(p, templateID, data, order) ==
    IF "Subject" \in DOMAIN p.templates[templateID]
    THEN MockEmailProvider_RenderTemplate(p, templateID, data, order)
    ELSE IF "Message" \in DOMAIN p.templates[templateID]
    THEN MockSMSProvider_RenderTemplate(p, templateID, data, order)
    ELSE MockPushProvider_RenderTemplate(p, templateID, data, order)

\* RenderTemplate writing the rendered fields into the stored template
RenderTemplate_InPlace(p, templateID, data, order) ==
    IF templateID \notin DOMAIN p.templates
    THEN Result(p, NoCancel, NilResponse, TemplateNotFound(templateID))
    ELSE Result([p EXCEPT !.templates[templateID] = Rendered(p, templateID, data, order)],
                NoCancel,
                TemplateResponse(Rendered(p, templateID, data, order)), NilError)

\* RenderTemplate of any of the providers: the whole call
RenderTemplate(p, templateID, data, order) ==
    IF templateID \notin DOMAIN p.templates
    THEN Result(p, NoCancel, NilResponse, TemplateNotFound(templateID))
    ELSE Result(p, NoCancel, TemplateResponse(Rendered(p, templateID, data, order)),
                NilError)

\* AddTemplate of any of the providers; id is uuid.New().String().  The SMS
\* provider fills in the maximal length of a template that gives none.
AddTemplate(p, template, id) ==
    LET named == IF template.ID = "" THEN [template EXCEPT !.ID = id] ELSE template
        t == IF "MaxLength" \in DOMAIN named /\ named.MaxLength = 0
             THEN [named EXCEPT !.MaxLength = IF named.Unicode THEN 70 ELSE 160]
             ELSE named
    IN  Result([p EXCEPT !.templates = (t.ID :> t) @@ @], NoCancel, NilResponse, NilError)


(***************************************************************************)
(* Templates: the template operations of the constructed provider, next to *)
(* the sends of its service.                                               *)
(***************************************************************************)
\* how many templates callers add beyond the seeded ones
MaxTemplates == 2

\* the data maps callers render with; in the last, the value of one key
\* holds the placeholder of another
TemplateData == {EmptyMap, "a" :> "1", ("a" :> "{{b}}") @@ ("b" :> "x")}

\* a seeded template of the constructed provider
SeededID == IF channel = "email" THEN "notification" ELSE "reminder"

TemplateIDs == {"custom", "missing", SeededID}

\* the templates callers add: under a new ID, under a seeded ID, under no ID
NewTemplates ==
    { CASE channel = "email" ->
             [ID |-> id, Subject |-> "{{a}}", HTMLBody |-> "<p>{{a}} {{b}}</p>",
              TextBody |-> "{{a}}"]
        [] channel = "sms" ->
             [ID |-> id, Message |-> "{{a}} and {{b}}", MaxLength |-> 0, Unicode |-> FALSE]
        [] OTHER ->
             [ID |-> id, Title |-> "{{a}}", Body |-> "{{a}} {{b}}", Icon |-> "",
              Sound |-> ""] : id \in {"custom", SeededID, ""} }

Seeded(p) ==
    IF "Subject" \in DOMAIN p.templates[SeededID] THEN EmailDefaultTemplates
    ELSE IF "Message" \in DOMAIN p.templates[SeededID] THEN SMSDefaultTemplates
    ELSE PushDefaultTemplates

\* the constructed provider after the template operation that returned r
TemplateStep(op, req, r) ==
    /\ email' = IF channel = "email" THEN r.p ELSE email
    /\ sms' = IF channel = "sms" THEN r.p ELSE sms
    /\ push' = IF channel = "push" THEN r.p ELSE push
    /\ last' = Ran(op, req, NoCancel, Provider, ServiceResult(r, << >>, 0, NoNotification))
    /\ UNCHANGED <<channel, now, sends>>

CallGetTemplate ==
    /\ Idle
    /\ \E id \in TemplateIDs :
         \E r \in {GetTemplate(Provider, id)} : TemplateStep("GetTemplate", id, r)

CallRenderTemplate ==
    /\ Idle
    /\ \E id \in TemplateIDs, data \in TemplateData :
         \E order \in RenderOrders(data) :
            \E r \in {RenderTemplate(Provider, id, data, order)} :
                TemplateStep("RenderTemplate", [TemplateID |-> id, Data |-> data], r)

CallAddTemplate ==
    /\ Idle
    /\ Cardinality(DOMAIN Provider.templates)
          < Cardinality(DOMAIN Seeded(Provider)) + MaxTemplates
    /\ \E t \in NewTemplates :
         \E r \in {AddTemplate(Provider, t,
                               "uuid-" \o Itoa(Cardinality(DOMAIN Provider.templates) + 1))} :
             TemplateStep("AddTemplate", t, r)

TemplateNext ==
    \/ CallGetTemplate
    \/ CallRenderTemplate
    \/ CallAddTemplate
    \/ SendEmail
    \/ SendSMS
    \/ SendPushNotification
    \/ Return

TemplateSpec == Init /\ [][TemplateNext]_vars


\* C15: rendering is deterministic: the output of the RenderTemplate call
\* that returned is the output of every RenderTemplate call with the same
\* template ID and the same data on the same provider, whatever the order in
\* which the runtime ranges over the data, also when the value of one key
\* holds the placeholder of another.
C15_RenderingDeterministic ==
    (last.op = "RenderTemplate" /\ ~IsError(last.err)) =>
        \A order \in RenderOrders(last.req.Data) :
            RenderTemplate(last.pre, last.req.TemplateID, last.req.Data, order).resp
                = last.resp

\* C16: RenderTemplate leaves the provider as it was: the stored templates
\* with every field, the audit log, the health flag (and the device
\* registry); it fails with TemplateNotFound exactly for an ID under which
\* nothing is stored, and otherwise returns the rendered clone.
C16_RenderTemplateNoEffect ==
    (last.op = "RenderTemplate") =>
        /\ Provider = last.pre
        /\ IF last.req.TemplateID \in DOMAIN last.pre.templates
           THEN /\ ~IsError(last.err)
                /\ last.resp.kind = "Template"
                /\ last.resp.template.ID = last.req.TemplateID
           ELSE /\ CodeOf(last.err) = ErrorCodeTemplateNotFound
                /\ last.resp = NilResponse

\* a render replaced a placeholder of an added template on a provider that
\* has sent something: the clone differs from the stored template
C16_Witness ==
    /\ last.op = "RenderTemplate"
    /\ last.req.TemplateID = "custom"
    /\ last.req.Data = "a" :> "1"
    /\ ~IsError(last.err)
    /\ last.resp.template # Provider.templates["custom"]
    /\ Len(AuditLog(Provider)) >= 1

\* C17: templates are immutable once created: after an AddTemplate,
\* GetTemplate, RenderTemplate or send call every template stored before it
\* is still stored under its ID with the same content, so every seeded
\* template is as it was at construction; AddTemplate only adds an entry.
C17_TemplatesImmutable ==
    /\ \A id \in DOMAIN Seeded(Provider) :
          /\ id \in DOMAIN Provider.templates
          /\ Provider.templates[id] = Seeded(Provider)[id]
    /\ ~Idle =>
          \A id \in DOMAIN last.pre.templates :
              /\ id \in DOMAIN Provider.templates
              /\ Provider.templates[id] = last.pre.templates[id]

(***************************************************************************)
(* SMS segments and cost: EstimateCost and sends of messages whose         *)
(* lengths lie around the segment and the validation boundaries.           *)
(***************************************************************************)
\* SMSProvider.GetSMSCost: the price of one segment, in 1/10000 dollars
MockSMSProvider_GetSMSCost(p, countryCode) ==
    IF countryCode = "" THEN Result(p, NoCancel, 100, NilError)
    ELSE IF ToUpper(countryCode) \in DOMAIN p.costs
    THEN Result(p, NoCancel, p.costs[ToUpper(countryCode)], NilError)
    ELSE Result(p, NoCancel, 0,
                NewNotificationError(ErrorCodeNotFound,
                    "country code not supported: " \o ToUpper(countryCode)))

\* the segment count with every segment of a long message taken at full length
calculateSMSSegments_FullSegments(message, unicode) ==
    LET maxLength == IF unicode THEN 70 ELSE 160
    IN  IF Len(message) <= maxLength THEN 1
        ELSE (Len(message) + maxLength - 1) \div maxLength

\* calculateSMSSegments of the SMS service
calculateSMSSegments(message, unicode) ==
    LET maxLength == IF unicode THEN 70 ELSE 160
        segmentLength == IF unicode THEN 67 ELSE maxLength - 7
    IN  IF Len(message) <= maxLength THEN 1
        ELSE (Len(message) + segmentLength - 1) \div segmentLength

\* SMSService.EstimateCost
EstimateCost(p, message, countryCode, unicode) ==
    LET segments == calculateSMSSegments(message, unicode)
        cost == MockSMSProvider_GetSMSCost(p, countryCode)
    IN  IF IsError(cost.err) THEN Result(p, NoCancel, NilResponse, cost.err)
        ELSE Result(p, NoCancel,
                    [kind |-> "SMSCostEstimate", Segments |-> segments,
                     CostPerSegment |-> cost.resp,
                     TotalCost |-> cost.resp * segments,
                     Unicode |-> unicode, CountryCode |-> countryCode,
                     MessageLength |-> Len(message)],
                    NilError)

\* the message lengths explored: one segment, the two single-segment limits,
\* multiples of the continuation lengths 153 and 67, the validation limits
SegmentLengths ==
    {1, 67, 70, 71, 134, 135, 153, 160, 161, 306, 307,
     670, 671, 700, 701, 1530, 1531, 1600, 1601}

SegmentMessages == {"Hello world"} \cup {Text(n) : n \in SegmentLengths}

SegmentCountries == {"", "US", "us", "UK"}

SegmentRequests ==
    { SMSRequest("1234567890", country, message, unicode, "", EmptyMap) :
        country \in SegmentCountries, message \in SegmentMessages, unicode \in BOOLEAN }

\* SMSService.SendSMS of a fresh service
SegmentSendSMS ==
    /\ channel = "sms" /\ Idle /\ sms = NewMockSMSProvider
    /\ \E req \in SegmentRequests, delivered \in BOOLEAN :
         \E r \in {SMSService_SendSMS(sms, req, NoCancel, FreshID(sms.sentSMS),
                                      <<<< >>, << >>, << >>>>, delivered)} :
            SMSStep("SendSMS", req, NoCancel, r, IF IsError(r.err) THEN 0 ELSE 1)

\* MockSMSProvider.SendSMS of a fresh provider
SegmentProviderSendSMS ==
    /\ channel = "sms" /\ Idle /\ sms = NewMockSMSProvider
    /\ \E req \in SegmentRequests :
         \E n \in {createSMSNotification(req, FreshID(sms.sentSMS))} :
            \E r \in {Direct(MockSMSProvider_SendSMS(sms, n, NoCancel, TRUE), 1, n)} :
               SMSStep("Provider.SendSMS", n, NoCancel, r, IF IsError(r.err) THEN 0 ELSE 1)

\* SMSService.EstimateCost
CallEstimateCost ==
    /\ channel = "sms" /\ Idle
    /\ \E message \in SegmentMessages, country \in SegmentCountries \cup {"ZZ"},
          unicode \in BOOLEAN :
         \E r \in {EstimateCost(sms, message, country, unicode)} :
            SMSStep("EstimateCost",
                    [Message |-> message, CountryCode |-> country, Unicode |-> unicode],
                    NoCancel, ServiceResult(r, << >>, 0, NoNotification), 0)

SegmentInit == Init /\ channel = "sms"

SegmentNext == SegmentSendSMS \/ SegmentProviderSendSMS \/ CallEstimateCost \/ Return

SegmentSpec == SegmentInit /\ [][SegmentNext]_vars

\* the least number of parts of b bytes that hold a bytes
CeilDiv(a, b) == CHOOSE k \in 0..a : (k - 1) * b < a /\ a <= k * b

\* the segment count by the rule: one segment up to 160 bytes (70 for
\* unicode), beyond that parts of 153 bytes (67 for unicode)
SegmentsOf(length, unicode) ==
    IF length <= (IF unicode THEN 70 ELSE 160) THEN 1
    ELSE CeilDiv(length, IF unicode THEN 67 ELSE 153)

\* C18: the segment count of a message of L bytes is 1 when L <= 160 (plain)
\* or L <= 70 (unicode) and otherwise ceil(L/153) (plain) or ceil(L/67)
\* (unicode), so a plain message of 161..306 bytes has 2 segments; the count
\* EstimateCost takes from the service's calculateSMSSegments and the count
\* the provider's calculateSegments stores in a sent record are the same
\* function of the message and the flag, and neither decreases as the
\* message grows.
C18_SegmentMath ==
    /\ \A i \in DOMAIN sms.sentSMS :
          LET r == sms.sentSMS[i] IN
          /\ r.Segments = SegmentsOf(Len(r.Message), r.Unicode)
          /\ r.Segments = calculateSMSSegments(r.Message, r.Unicode)
    /\ (last.op = "EstimateCost" /\ ~IsError(last.err)) =>
          LET L == Len(last.req.Message) IN
          /\ last.resp.Segments = SegmentsOf(L, last.req.Unicode)
          /\ last.resp.Segments = calculateSegments(last.req.Message, last.req.Unicode)
          /\ (~last.req.Unicode /\ L \in 161..306) => last.resp.Segments = 2
          /\ \A i \in DOMAIN sms.sentSMS :
                LET r == sms.sentSMS[i] IN
                r.Unicode = last.req.Unicode =>
                   /\ Len(r.Message) <= L => r.Segments <= last.resp.Segments
                   /\ Len(r.Message) >= L => r.Segments >= last.resp.Segments

\* a plain message of 306 bytes was sent and stored with 2 segments, and the
\* estimate for a plain message of 307 bytes counts 3
C18_Witness ==
    /\ last.op = "EstimateCost"
    /\ ~IsError(last.err)
    /\ ~last.req.Unicode
    /\ Len(last.req.Message) = 307
    /\ last.resp.Segments = 3
    /\ Len(sms.sentSMS) = 1
    /\ Len(sms.sentSMS[1].Message) = 306
    /\ ~sms.sentSMS[1].Unicode
    /\ sms.sentSMS[1].Segments = 2

\* C19: the length bound of the validations (160*10 bytes plain, 70*10
\* unicode) allows at most 10 segments: every message the service's
\* validateSMSRequest and the provider's validateSMSNotification let through
\* is counted as at most 10 segments, so every record of the sent-SMS log
\* has between 1 and 10 segments.
C19_AtMostTenSegments ==
    \A i \in DOMAIN sms.sentSMS :
        /\ 1 <= sms.sentSMS[i].Segments
        /\ sms.sentSMS[i].Segments <= 10

\* the price of one segment for a country code: 0.01 dollars without a code,
\* else the rate of the country whatever the case of the code's letters
RateOf(countryCode) ==
    IF countryCode = "" THEN 100
    ELSE SMSDefaultCosts[CHOOSE c \in DOMAIN SMSDefaultCosts : c = ToUpper(countryCode)]

SMSSends == {"SendSMS", "Provider.SendSMS"}

\* C20: a successful SendSMS stores exactly one new record, whose cost is its
\* segments times the per-segment rate of its country (0.01 without a
\* country code; US 0.0075, UK 0.0080, ...; codes compared without regard to
\* case), and that is the TotalCost EstimateCost returns for the record's
\* message, country code and unicode flag; '1234567890' / US / 'Hello world'
\* gives segments 1 and cost 0.0075.  Amounts are in 1/10000 dollars.
C20_CostIsSegmentsTimesRate ==
    /\ (last.op \in SMSSends /\ ~IsError(last.err)) =>
          /\ Len(sms.sentSMS) = Len(last.pre.sentSMS) + 1
          /\ SubSeq(sms.sentSMS, 1, Len(last.pre.sentSMS)) = last.pre.sentSMS
          /\ LET r == sms.sentSMS[Len(sms.sentSMS)]
                 e == EstimateCost(sms, r.Message, r.CountryCode, r.Unicode)
             IN  /\ r.Cost = r.Segments * RateOf(r.CountryCode)
                 /\ ~IsError(e.err)
                 /\ r.Cost = e.resp.TotalCost
                 /\ r.Segments = e.resp.Segments
                 /\ (r.PhoneNumber = "1234567890" /\ r.CountryCode = "US"
                       /\ r.Message = "Hello world")
                      => (r.Segments = 1 /\ r.Cost = 75)
    /\ (last.op = "EstimateCost" /\ ~IsError(last.err)) =>
          \A i \in DOMAIN sms.sentSMS :
              LET r == sms.sentSMS[i] IN
              (r.Message = last.req.Message /\ r.CountryCode = last.req.CountryCode
                  /\ r.Unicode = last.req.Unicode)
                => r.Cost = last.resp.TotalCost

\* a plain message of 307 bytes was sent to country "us" and stored with 3
\* segments at the US rate, and the estimate for the same message, country
\* code and flag returned that total
C20_Witness ==
    /\ last.op = "EstimateCost"
    /\ ~IsError(last.err)
    /\ last.req.CountryCode = "us"
    /\ Len(last.req.Message) = 307
    /\ ~last.req.Unicode
    /\ last.resp.TotalCost = 225
    /\ Len(sms.sentSMS) = 1
    /\ sms.sentSMS[1].Message = last.req.Message
    /\ sms.sentSMS[1].CountryCode = "us"
    /\ ~sms.sentSMS[1].Unicode
    /\ sms.sentSMS[1].Cost = 225

(***************************************************************************)
(* The device operations of the push service.                              *)
(***************************************************************************)
\* a run-time panic: the call does not return, the process terminates
Panic(text) == [kind |-> "panic", text |-> text]
IsPanic(e) == e.kind = "panic"

\* PushService.RegisterDevice, time.Now() being t
PushService_RegisterDevice(p, token, platform, t) ==
    IF IsError(MockPushProvider_ValidateDeviceToken(token, platform))
    THEN Result(p, NoCancel, NilResponse,
                MockPushProvider_ValidateDeviceToken(token, platform))
    ELSE MockPushProvider_RegisterDevice(p, token, platform, t)

\* PushService.UnregisterDevice: the log line slices deviceToken[:8] before
\* the provider is asked
PushService_UnregisterDevice(p, token) ==
    IF Len(token) < 8
    THEN Result(p, NoCancel, NilResponse,
                Panic("runtime error: slice bounds out of range [:8] with length "
                      \o Itoa(Len(token))))
    ELSE MockPushProvider_UnregisterDevice(p, token)

\* the device tokens the callers pass: none, shorter than 8 bytes, of 8
\* bytes, and well-formed ones of each platform
DeviceTokens == {"", ShortToken, "1234567", "12345678", IOSToken, AndroidToken, WebToken}

DevicePlatforms == {"ios", "Android", "web", "blackberry"}

CallRegisterDevice ==
    /\ channel = "push" /\ Idle
    /\ \E token \in DeviceTokens, platform \in DevicePlatforms, t \in Times :
         \E r \in {ServiceResult(PushService_RegisterDevice(push, token, platform, t),
                                << >>, 0, NoNotification)} :
             PushStep("PushService.RegisterDevice", <<token, platform>>, NoCancel, r, 0, t)

CallUnregisterDevice ==
    /\ channel = "push" /\ Idle
    /\ \E token \in DeviceTokens :
         \E r \in {ServiceResult(PushService_UnregisterDevice(push, token),
                                << >>, 0, NoNotification)} :
             PushStep("PushService.UnregisterDevice", <<token, "">>, NoCancel, r, 0, now)

\* the caller takes the result of a call that returned
DeviceReturn == ~IsPanic(last.err) /\ Return

DeviceInit == Init /\ channel = "push"

DeviceNext ==
    CallRegisterDevice \/ CallUnregisterDevice \/ PushHealthCheck \/ DeviceReturn

DeviceSpec == DeviceInit /\ [][DeviceNext]_vars

\* C21: no service operation terminates abnormally: every failure comes back
\* to the caller as an error value; PushService.UnregisterDevice returns nil
\* or an error value for every device-token string, the empty one and those
\* shorter than 8 bytes included.
C21_NoAbnormalTermination == ~IsPanic(last.err)

\* AsNotificationError: a type assertion on the error value itself
AsNotificationError(e) == e.kind = "NotificationError"

\* C22: every non-nil error a channel-service operation returns is the
\* structured NotificationError, recognised by AsNotificationError and
\* carrying a code the caller can branch on, and the unhealthy and timeout
\* errors of the provider reach the caller with their code: a health check
\* of an unhealthy provider fails with PROVIDER_UNAVAILABLE, one whose
\* context is done with TIMEOUT; PushService.HealthCheck and the aggregate
\* error of SendBulkPushNotifications are no exception.
C22_ErrorsAreStructured ==
    /\ IsError(last.err) =>
          /\ AsNotificationError(last.err)
          /\ CodeOf(last.err) # ""
    /\ (last.op = "HealthCheck" /\ ~last.pre.healthy) =>
          CodeOf(last.err) = ErrorCodeProviderUnavailable
    /\ (last.op = "HealthCheck" /\ last.pre.healthy /\ CtxDone(last.ctx)) =>
          CodeOf(last.err) = ErrorCodeTimeout

(***************************************************************************)
(* The retry fields of the notifications built from requests.              *)
(***************************************************************************)
\* utils.CreateNotificationFromRequest, id being the generated ID
CreateNotificationFromRequest(request, id) ==
    [ID |-> id, Type |-> request.Type, Recipient |-> request.Recipient,
     Subject |-> request.Subject, Body |-> request.Body, Metadata |-> request.Metadata,
     RetryCount |-> 0,
     MaxRetries |-> IF request.MaxRetries > 0 THEN request.MaxRetries ELSE 3]

\* the values of a request's MaxRetries (an int): negative, unset, positive
RetryLimits == {-1, 0, 1, 5}

RetryRequests ==
    { [PushRequest("push", "Subject", "Body", PushData(d[1], d[2], "Hi"))
          EXCEPT !.MaxRetries = m] :
        m \in RetryLimits, d \in {<<IOSToken, "ios">>, <<AndroidToken, "android">>} }

\* PushService.SendPushNotification of a request with a MaxRetries value
RetrySendPushNotification ==
    /\ channel = "push" /\ Idle /\ CanSend
    /\ \E req \in RetryRequests, delivered \in BOOLEAN, t \in Times :
         \E r \in {PushService_SendPushNotification(push, req, NoCancel,
                                                    FreshID(push.sentPushes), delivered, t)} :
             PushStep("SendPushNotification", req, NoCancel, r,
                      IF IsError(r.err) THEN 0 ELSE 1, t)

\* utils.CreateNotificationFromRequest
CallCreateNotificationFromRequest ==
    /\ Idle
    /\ \E req \in RetryRequests :
         \E n \in {CreateNotificationFromRequest(req, FreshID(AuditLog(Provider)))} :
            /\ last' = Ran("CreateNotificationFromRequest", req, NoCancel, Provider,
                           ServiceResult(Result(Provider, NoCancel, NilResponse, NilError),
                                         << >>, 1, n))
            /\ UNCHANGED <<channel, email, sms, push, now, sends>>

RetryNext ==
    \/ RetrySendPushNotification
    \/ CallCreateNotificationFromRequest
    \/ SendEmail
    \/ SendSMS
    \/ Return

RetrySpec == Init /\ [][RetryNext]_vars

\* C23: every notification built from a request, by createEmailNotification,
\* createSMSNotification, convertRequestToPushNotification or
\* CreateNotificationFromRequest, has 0 <= RetryCount <= MaxRetries whatever
\* the request's MaxRetries, and still has it when it is handed to the
\* provider.
C23_RetryCountWithinBound ==
    (~Idle /\ last.handed # NoNotification) =>
        /\ 0 <= last.handed.RetryCount
        /\ last.handed.RetryCount <= last.handed.MaxRetries

(***************************************************************************)
(* The shared validation utilities beside the providers' validations.      *)
(***************************************************************************)
\* utils.ValidateDeviceToken
utils_ValidateDeviceToken(token, platform) ==
    IF token = ""
    THEN NewValidationError("device_token", "device token is required")
    ELSE IF ToLower(platform) = "ios"
    THEN IF Len(token) # 64
         THEN NewValidationError("device_token", "invalid iOS device token length")
         ELSE IF ~AllIn(token, HexDigits)
         THEN NewValidationError("device_token", "invalid iOS device token format")
         ELSE NilError
    ELSE IF ToLower(platform) = "android"
    THEN IF Len(token) < 140 \/ Len(token) > 255
         THEN NewValidationError("device_token", "invalid Android device token length")
         ELSE NilError
    ELSE IF ToLower(platform) = "web"
    THEN IF Len(token) < 10
         THEN NewValidationError("device_token", "invalid web push token")
         ELSE NilError
    ELSE NewValidationError("platform", "unsupported platform")

\* utils.ValidatePhoneNumber
utils_ValidatePhoneNumber(phoneNumber, countryCode) ==
    LET cleanNumber == ReplaceAll(ReplaceAll(ReplaceAll(ReplaceAll(ReplaceAll(
                           phoneNumber, " ", ""), "-", ""), "(", ""), ")", ""), "+", "")
    IN  IF phoneNumber = ""
        THEN NewValidationError("phone_number", "phone number is required")
        ELSE IF ~(Len(cleanNumber) \in 7..15 /\ AllIn(cleanNumber, Digits))
        THEN NewValidationError("phone_number", "invalid phone number format")
        ELSE NilError

\* MockSMSProvider.GetSupportedCountries: the codes listed
GetSupportedCountries == {"US", "UK", "CA", "AU", "DE", "FR", "IN", "BR"}

\* the tokens validated: lengths on both sides of every platform's limits,
\* and tokens of the right length with a byte outside the platform's class
ValidatedTokens ==
    { "", Text(9), Text(10), Text(49), Text(50), Text(500), Text(501),
      SubSeq(IOSToken, 1, 63), IOSToken, IOSToken \o "0", SubSeq(IOSToken, 1, 63) \o "g",
      SubSeq(AndroidToken, 1, 139), AndroidToken, AndroidToken \o Text(115),
      AndroidToken \o Text(116), SubSeq(AndroidToken, 1, 139) \o ":" }

ValidatedPlatforms == {"ios", "IOS", "android", "Android", "web", "Web", "blackberry", ""}

\* the phone numbers validated: 6 to 16 digits, and numbers with each of the
\* formatting bytes
ValidatedPhones ==
    { "", "abcdefghij", "+1 (555) 123-4567", "555.123.4567", "555-123-4567" }
    \cup { Text(n) : n \in {6, 7, 8, 9, 10, 11, 12, 13, 15, 16} }

\* the country codes passed: none, the countries with a length rule in
\* either case, countries with a rate alone, an unknown one
ValidatedCountries ==
    {"", "US", "us", "CA", "UK", "AU", "DE", "IN", "FR", "BR", "MX", "JP", "ZZ"}

\* the state after a call of a function that changes nothing
PureStep(op, req, resp, err) ==
    /\ last' = Ran(op, req, NoCancel, Provider,
                   ServiceResult(Result(Provider, NoCancel, resp, err), << >>, 0,
                                 NoNotification))
    /\ UNCHANGED <<channel, email, sms, push, now, sends>>

CallUtilsValidateDeviceToken ==
    /\ Idle
    /\ \E token \in ValidatedTokens, platform \in ValidatedPlatforms :
         PureStep("utils.ValidateDeviceToken", <<token, platform>>, NilResponse,
                  utils_ValidateDeviceToken(token, platform))

CallProviderValidateDeviceToken ==
    /\ channel = "push" /\ Idle
    /\ \E token \in ValidatedTokens, platform \in ValidatedPlatforms :
         PureStep("Provider.ValidateDeviceToken", <<token, platform>>, NilResponse,
                  MockPushProvider_ValidateDeviceToken(token, platform))

CallUtilsValidatePhoneNumber ==
    /\ Idle
    /\ \E phone \in ValidatedPhones, country \in ValidatedCountries :
         PureStep("utils.ValidatePhoneNumber", <<phone, country>>, NilResponse,
                  utils_ValidatePhoneNumber(phone, country))

CallProviderValidatePhoneNumber ==
    /\ channel = "sms" /\ Idle
    /\ \E phone \in ValidatedPhones, country \in ValidatedCountries :
         PureStep("Provider.ValidatePhoneNumber", <<phone, country>>, NilResponse,
                  MockSMSProvider_ValidatePhoneNumber(phone, country))

CallGetSMSCost ==
    /\ channel = "sms" /\ Idle
    /\ \E country \in ValidatedCountries :
         \E r \in {MockSMSProvider_GetSMSCost(sms, country)} :
            PureStep("GetSMSCost", country, r.resp, r.err)

ValidationNext ==
    \/ CallUtilsValidateDeviceToken
    \/ CallProviderValidateDeviceToken
    \/ CallUtilsValidatePhoneNumber
    \/ CallProviderValidatePhoneNumber
    \/ CallGetSMSCost
    \/ Return

ValidationSpec == Init /\ [][ValidationNext]_vars

\* the device-token operations
TokenValidations == {"utils.ValidateDeviceToken", "Provider.ValidateDeviceToken"}

\* C24: for the platforms ios (exactly 64 hex bytes) and android (140..255
\* bytes, all in [A-Za-z0-9_-]) utils.ValidateDeviceToken and
\* MockPushProvider.ValidateDeviceToken accept exactly the same tokens; they
\* differ for web alone (50..500 against >= 10); both reject the empty token
\* and every other platform name, and take the platform name in any case.
C24_TokenValidationMirrors ==
    (last.op \in TokenValidations) =>
        LET token == last.req[1]
            platform == ToLower(last.req[2])
            accepted == ~IsError(last.err)
        IN  /\ platform = "ios" =>
                  (accepted <=> (Len(token) = 64 /\ AllIn(token, HexDigits)))
            /\ platform = "android" =>
                  (accepted <=> (Len(token) \in 140..255
                                   /\ AllIn(token, Letters \cup Digits \cup {"_", "-"})))
            /\ platform = "web" =>
                  (accepted <=> IF last.op = "utils.ValidateDeviceToken"
                                THEN Len(token) >= 10
                                ELSE Len(token) \in 50..500)
            /\ platform \notin {"ios", "android", "web"} => ~accepted
            /\ platform # "web" =>
                  (IsError(utils_ValidateDeviceToken(token, last.req[2]))
                     <=> IsError(MockPushProvider_ValidateDeviceToken(token, last.req[2])))

\* the phone-number operations
PhoneValidations == {"utils.ValidatePhoneNumber", "Provider.ValidatePhoneNumber"}

\* the length rule of a country for a number of n digits
CountryLengthRule(cc, n) ==
    CASE cc \in {"US", "CA"} -> n \in {10, 11}
      [] cc = "UK" -> n \in 10..11
      [] cc = "AU" -> n \in 9..10
      [] cc = "DE" -> n \in 10..12
      [] cc = "IN" -> n = 10
      [] OTHER -> cc \in GetSupportedCountries

\* a number that, without its formatting bytes, is 7 to 15 digits and fits
\* the rule of the country code given with it
AcceptablePhone(phoneNumber, countryCode) ==
    LET digits == cleanPhoneNumber(phoneNumber) IN
    /\ Len(digits) \in 7..15
    /\ AllIn(digits, Digits)
    /\ countryCode # "" => CountryLengthRule(ToUpper(countryCode), Len(digits))

\* C25: ValidatePhoneNumber, the shared utility and the SMS provider's
\* method alike, accepts exactly the numbers that after the removal of
\* spaces, '-', '(', ')', '+' and '.' are 7 to 15 digits and, with a country
\* code, fit that country's length rule, an unrecognized code being rejected;
\* so the two accept the same (number, country code) pairs.
C25_PhoneValidationAgrees ==
    (last.op \in PhoneValidations) =>
        /\ ~IsError(last.err) <=> AcceptablePhone(last.req[1], last.req[2])
        /\ IsError(utils_ValidatePhoneNumber(last.req[1], last.req[2]))
             <=> IsError(MockSMSProvider_ValidatePhoneNumber(last.req[1], last.req[2]))

(***************************************************************************)
(* Bulk calls step by step: the loop of a bulk operation starts the single *)
(* send of an item and takes its result before it goes to the next item.   *)
(***************************************************************************)
BulkOp ==
    CASE channel = "email" -> "SendBulkEmail"
      [] channel = "sms" -> "SendBulkSMS"
      [] OTHER -> "SendBulkPushNotifications"

BulkRequests ==
    CASE channel = "email" -> BulkEmailRequests
      [] channel = "sms" -> BulkSMSRequests
      [] OTHER -> BulkPushRequests

\* the number of items of a bulk request
BulkLen(req) == IF channel = "push" THEN Len(req) ELSE Len(req.Recipients)

\* the template data the send of item i renders with
ItemData(req, i) ==
    IF channel = "push" THEN EmptyMap
    ELSE mergeTemplateData(req.TemplateData, req.Recipients[i].Data)

\* the single send the loop body calls for item i
ItemSend(p, req, i, ctx, id, order, delivered, t) ==
    CASE channel = "email" ->
           EmailService_SendEmail(p, BulkEmailItem(req, req.Recipients[i]), ctx, id, order)
      [] channel = "sms" ->
           SMSService_SendSMS(p, BulkSMSItem(req, req.Recipients[i]), ctx, id, order,
                              delivered)
      [] OTHER -> PushService_SendPushNotification(p, req[i], ctx, id, delivered, t)

\* the whole bulk call, the sends of its items drawing choices[i]
BulkCall(p, req, ctx, firstID, choices, t) ==
    LET orders == [k \in 1..Len(choices) |-> choices[k].order]
        delivereds == [k \in 1..Len(choices) |-> choices[k].delivered]
    IN  CASE channel = "email" -> EmailService_SendBulkEmail(p, req, ctx, firstID, orders)
          [] channel = "sms" ->
               SMSService_SendBulkSMS(p, req, ctx, firstID, orders, delivereds)
          [] OTHER ->
               PushService_SendBulkPushNotifications(p, req, ctx, firstID, delivereds, t)

\* a loop that starts the send of the next item whatever is in flight
CanStart_FanOut(st) == st.next <= BulkLen(st.req)

\* for _, item := range items { response, err := s.Send...(ctx, item) ... }:
\* the next iteration begins once the call of the last one has returned
CanStart(st) == st.inflight = {} /\ st.next <= BulkLen(st.req)

\* a bulk call is under way
Running == last.op = "bulk"

\* the provider after a step of a bulk call
BulkProvider(p) ==
    /\ email' = IF channel = "email" THEN p ELSE email
    /\ sms' = IF channel = "sms" THEN p ELSE sms
    /\ push' = IF channel = "push" THEN p ELSE push

\* the bulk operation is called
BulkBegin ==
    /\ Idle /\ CanSend
    /\ \E req \in BulkRequests, t \in Times,
          ctx \in (IF channel = "push" THEN {NoCancel, 1} ELSE BulkContexts) :
         /\ last' = [op |-> "bulk", req |-> req, ctx |-> ctx, pre |-> Provider,
                     resp |-> NilResponse, err |-> NilError, stages |-> << >>,
                     handed |-> NoNotification, responses |-> << >>, items |-> << >>,
                     next |-> 1, inflight |-> {}, ids |-> 0, choices |-> << >>,
                     firstID |-> FreshID(AuditLog(Provider)), ctx0 |-> ctx, t |-> t]
         /\ now' = t
         /\ UNCHANGED <<channel, email, sms, push, sends>>

\* the loop calls the single send of its next item
StartItem ==
    /\ Running /\ CanStart(last)
    /\ last' = [last EXCEPT !.inflight = @ \cup {last.next}, !.next = @ + 1]
    /\ UNCHANGED <<channel, email, sms, push, now, sends>>

\* a single send that is in flight returns
FinishItem ==
    /\ Running
    /\ \E i \in last.inflight, delivered \in BOOLEAN :
         \E order \in RenderOrders(ItemData(last.req, i)) :
            \E r \in {ItemSend(Provider, last.req, i, last.ctx, last.firstID + last.ids,
                               order, delivered, last.t)} :
               /\ BulkProvider(r.p)
               /\ sends' = sends + (IF IsError(r.err) THEN 0 ELSE 1)
               /\ last' = [last EXCEPT
                              !.inflight = @ \ {i},
                              !.ctx = r.ctx,
                              !.ids = @ + r.ids
                                      + (IF IsError(r.err) /\ channel # "push" THEN 1 ELSE 0),
                              !.items = Append(@, Item(r)),
                              !.choices = Append(@, [order |-> order,
                                                     delivered |-> delivered])]
               /\ UNCHANGED <<channel, now>>

\* the loop is over and the bulk operation returns
BulkEnd ==
    /\ Running /\ last.inflight = {} /\ last.next > BulkLen(last.req)
    /\ \E b \in {BulkCall(last.pre, last.req, last.ctx0, last.firstID, last.choices, last.t)} :
         last' = [last EXCEPT !.op = BulkOp, !.err = b.err, !.responses = b.responses]
    /\ UNCHANGED <<channel, email, sms, push, now, sends>>

BulkNext == BulkBegin \/ StartItem \/ FinishItem \/ BulkEnd \/ Return

BulkSpec == Init /\ [][BulkNext]_vars

\* C26: bulk operations are strictly sequential.  While SendBulkEmail,
\* SendBulkSMS or SendBulkPushNotifications runs, at most one single send is
\* in flight, and it is the send of the item right after those whose sends
\* have returned, so the send of item i+1 starts after that of item i has
\* returned; the audit records the call has created are, at every moment and
\* when it returns, the records of its successful items in the order of the
\* items, and the call ends with the provider and the per-item results of
\* the loop run item by item.
C26_BulkSequential ==
    /\ Running =>
          /\ Cardinality(last.inflight) <= 1
          /\ last.inflight \subseteq {Len(last.items) + 1}
          /\ last.next = Len(last.items) + Cardinality(last.inflight) + 1
    /\ (Running \/ (IsBulk(last.op) /\ "choices" \in DOMAIN last)) =>
          LET log == AuditLog(Provider)
              pre == AuditLog(last.pre)
          IN  /\ Len(log) = Len(pre) + Len(SentItems)
              /\ SubSeq(log, 1, Len(pre)) = pre
              /\ \A k \in 1..Len(SentItems) :
                    log[Len(pre) + k].ID = SentItems[k].handed.ID
              /\ \A k \in 1..(Len(SentItems) - 1) :
                    SentItems[k].handed.ID < SentItems[k + 1].handed.ID
    /\ (IsBulk(last.op) /\ "choices" \in DOMAIN last) =>
          LET b == BulkCall(last.pre, last.req, last.ctx0, last.firstID, last.choices,
                            last.t)
          IN  /\ b.p = Provider
              /\ b.items = last.items

\* the send of the second item of a bulk call is in flight, the send of the
\* first has returned and left its record in the log
C26_Witness ==
    /\ Running
    /\ last.inflight = {2}
    /\ Len(last.items) = 1
    /\ ~IsError(last.items[1].err)
    /\ Len(AuditLog(Provider)) = Len(AuditLog(last.pre)) + 1

(***************************************************************************)
(* Email sends over every field the provider validates: one send of a      *)
(* constructed provider, through the service or directly.                  *)
(***************************************************************************)
FieldAddressLists == {<< >>, <<"a@b.co">>, <<"a@b.co", "invalid-email">>}

FieldAddresses == {"", "s@b.co", "bad@host"}

\* subject, HTML body, text body
FieldContents ==
    {<<"Hi", "", "Body">>, <<"", "", "Body">>, <<"Hi", "", "">>, <<"Hi", "<p>x</p>", "">>}

\* template ID and template data
FieldTemplates ==
    {<<"", EmptyMap>>, <<"notification", "notification_title" :> "Sale">>,
     <<"notification", "notification_title" :> "">>}

FieldRequests ==
    { [kind |-> "EmailRequest", To |-> to, CC |-> cc, BCC |-> bcc, From |-> from,
       ReplyTo |-> replyTo, Subject |-> c[1], HTMLBody |-> c[2], TextBody |-> c[3],
       TemplateID |-> t[1], TemplateData |-> t[2]] :
        to \in FieldAddressLists, cc \in FieldAddressLists, bcc \in FieldAddressLists,
        from \in FieldAddresses, replyTo \in FieldAddresses, c \in FieldContents,
        t \in FieldTemplates }

FieldNotifications(id) ==
    { [ID |-> id, Type |-> "email", Recipient |-> "a@b.co", Subject |-> c[1],
       Body |-> c[3], RetryCount |-> 0, MaxRetries |-> 3,
       To |-> to, CC |-> cc, BCC |-> bcc, From |-> from, ReplyTo |-> replyTo,
       HTMLBody |-> c[2], TextBody |-> c[3]] :
        to \in FieldAddressLists, cc \in FieldAddressLists, bcc \in FieldAddressLists,
        from \in FieldAddresses, replyTo \in FieldAddresses, c \in FieldContents }

\* EmailService.SendEmail of a fresh service
FieldSendEmail ==
    /\ channel = "email" /\ Idle /\ email = NewMockEmailProvider
    /\ \E req \in FieldRequests :
         \E order \in RenderOrders(req.TemplateData) :
            \E r \in {EmailService_SendEmail(email, req, NoCancel,
                                             FreshID(email.sentEmails), order)} :
               EmailStep("SendEmail", req, NoCancel, r, IF IsError(r.err) THEN 0 ELSE 1)

\* MockEmailProvider.SendEmail of a fresh provider
FieldProviderSendEmail ==
    /\ channel = "email" /\ Idle /\ email = NewMockEmailProvider
    /\ \E n \in FieldNotifications(FreshID(email.sentEmails)) :
         \E r \in {Direct(MockEmailProvider_SendEmail(email, n, NoCancel), 1, n)} :
            EmailStep("Provider.SendEmail", n, NoCancel, r, IF IsError(r.err) THEN 0 ELSE 1)

\* MockEmailProvider.Send of a fresh provider
FieldProviderSend ==
    /\ channel = "email" /\ Idle /\ email = NewMockEmailProvider
    /\ \E recipient \in FieldAddresses, c \in FieldContents :
         \E n \in {[ID |-> FreshID(email.sentEmails), Type |-> "email",
                    Recipient |-> recipient, Subject |-> c[1], Body |-> c[3],
                    Metadata |-> EmptyMap, RetryCount |-> 0, MaxRetries |-> 3]} :
            \E r \in {Direct(MockEmailProvider_Send(email, n, NoCancel), 1, n)} :
               EmailStep("Provider.Send", n, NoCancel, r, IF IsError(r.err) THEN 0 ELSE 1)

FieldInit == Init /\ channel = "email"

FieldNext == FieldSendEmail \/ FieldProviderSendEmail \/ FieldProviderSend \/ Return

FieldSpec == FieldInit /\ [][FieldNext]_vars

\* every address of the list passes the address validation
AllValid(addrs) == \A k \in 1..Len(addrs) : ~IsError(ValidateEmailAddress(addrs[k]))

\* the email notification the provider's SendEmail was given by the send
\* that returned
EmailGiven ==
    IF last.op = "Provider.Send" THEN convertToEmailNotification(last.handed)
    ELSE last.handed

\* C27: every record of the sent-email log has a non-empty 'to' list,
\* addresses in to, cc and bcc that pass the address validation, a sender
\* that is empty or passes it, a non-empty subject and an HTML body or a
\* text body; the email a successful send stored had a reply-to address
\* that is empty or valid.  This holds for sends through the service, with
\* a template or without, and for the provider's Send and SendEmail.
C27_SentEmailsValid ==
    /\ \A i \in DOMAIN email.sentEmails :
          LET r == email.sentEmails[i] IN
          /\ Len(r.To) >= 1
          /\ AllValid(r.To) /\ AllValid(r.CC) /\ AllValid(r.BCC)
          /\ r.From = "" \/ ~IsError(ValidateEmailAddress(r.From))
          /\ r.Subject # ""
          /\ r.HTMLBody # "" \/ r.TextBody # ""
    /\ (channel = "email" /\ last.op \in SingleSends /\ ~IsError(last.err)) =>
          (EmailGiven.ReplyTo = "" \/ ~IsError(ValidateEmailAddress(EmailGiven.ReplyTo)))

\* a send through the service with a template, copies, a sender and a
\* reply-to address left its record
C27_Witness ==
    /\ last.op = "SendEmail"
    /\ ~IsError(last.err)
    /\ last.req.TemplateID = "notification"
    /\ last.req.CC = <<"a@b.co">>
    /\ last.req.BCC = <<"a@b.co">>
    /\ last.req.ReplyTo = "s@b.co"
    /\ Len(email.sentEmails) = 1
    /\ email.sentEmails[1].Subject = "Sale"
    /\ email.sentEmails[1].From = "s@b.co"


(***************************************************************************)
(* Push payloads: requests at and around each platform's payload limit.    *)
(***************************************************************************)
\* strings.Contains
HasSubstring(s, sub) ==
    \E i \in 1..(Len(s) - Len(sub) + 1) : SubSeq(s, i, i + Len(sub) - 1) = sub

\* a request with title "Hi" and no icon, image or click action, whose
\* estimated payload is the platform's maximum plus `over` bytes: the title,
\* the body, the default sound, the data and the 200 bytes of overhead
PayloadRequest(token, platform, data, over) ==
    LET max == PushPlatformConfigs[ToLower(platform)].MaxPayloadSize
        body == Text(max + over - 200 - Len("Hi") - Len("default") - DataSize(data))
    IN  [PushRequest("push", "Subject", body, PushData(token, platform, "Hi"))
            EXCEPT !.PushData.Data = data]

PayloadData == {EmptyMap, ("key_0" :> Text(100)) @@ ("key_1" :> Text(100))}

PayloadRequests ==
    { PayloadRequest(IOSToken, platform, data, over) :
        platform \in {"ios", "iOS"}, data \in PayloadData, over \in {0, 1} }
    \cup { PayloadRequest(AndroidToken, "android", EmptyMap, over) : over \in {0, 1} }
    \cup { PayloadRequest(Text(60), "web", EmptyMap, over) : over \in {0, 1} }
    \cup { PayloadRequest(ShortToken, "ios", EmptyMap, over) : over \in {0, 1} }
    \cup { PushRequest("push", "Subject", "Body", PushData(ShortToken, "ios", "Hi")),
           PushRequest("push", "Subject", "", PushData(IOSToken, "ios", "Hi")) }

PayloadSendPushNotification ==
    /\ channel = "push" /\ Idle /\ CanSend
    /\ \E req \in PayloadRequests, delivered \in BOOLEAN, t \in Times :
         \E r \in {PushService_SendPushNotification(push, req, NoCancel,
                                                    FreshID(push.sentPushes), delivered, t)} :
             PushStep("SendPushNotification", req, NoCancel, r,
                      IF IsError(r.err) THEN 0 ELSE 1, t)

PayloadInit == Init /\ channel = "push"

PayloadNext ==
    \/ PayloadSendPushNotification
    \/ Return

PayloadSpec == PayloadInit /\ [][PayloadNext]_vars

\* the request passes request validation
PushRequestValid == ~IsError(validatePushRequest(last.req))

\* the estimated payload of the request's content as converted, before any
\* truncation, exceeds the maximum of its platform
PayloadTooLarge ==
    LET c == convertRequestToPushNotification(last.req, 0)
    IN  estimatePayloadSize(c) > MaxPayload(last.pre, c.Platform)

\* the provider rejects the request's device token
TokenRejected ==
    IsError(MockPushProvider_ValidateDeviceToken(last.req.PushData.DeviceToken,
                                                 last.req.PushData.Platform))

\* the provider's SendPush was not invoked and its audit log is as before
NoSendPush ==
    /\ ~Contains(last.stages, "send")
    /\ last.handed = NoNotification
    /\ push = last.pre

\* C28: SendPushNotification runs request validation, conversion, the payload
\* check on the untruncated content, the token validation and the provider's
\* SendPush in that order: a valid request whose estimated payload exceeds
\* the platform maximum fails with a "payload too large" validation error
\* whatever its token, a fitting one with a rejected token fails with the
\* token's error, in both cases without SendPush and without an audit
\* record, and only a request that passes all of them reaches SendPush.
C28_PushStagesInOrder ==
    (last.op = "SendPushNotification" /\ PushRequestValid) =>
        /\ PayloadTooLarge =>
              /\ last.stages = <<"validate", "preprocess">>
              /\ last.err.kind = "NotificationError"
              /\ last.err.Code = ErrorCodeValidationFailed
              /\ HasSubstring(ErrorString(last.err), "payload too large")
              /\ NoSendPush
        /\ (~PayloadTooLarge /\ TokenRejected) =>
              /\ last.stages = <<"validate", "preprocess", "token">>
              /\ last.err = MockPushProvider_ValidateDeviceToken(
                                last.req.PushData.DeviceToken, last.req.PushData.Platform)
              /\ NoSendPush
        /\ (~PayloadTooLarge /\ ~TokenRejected) =>
              /\ last.stages = <<"validate", "preprocess", "token", "send">>
              /\ last.handed # NoNotification

\* a valid request with a valid token whose payload is one byte over the
\* maximum, and would fit once truncated, was rejected without a send
C28_Witness ==
    /\ last.op = "SendPushNotification" /\ PushRequestValid
    /\ PayloadTooLarge /\ ~TokenRejected
    /\ estimatePayloadSize(preprocessPushNotification(
            convertRequestToPushNotification(last.req, 0)))
         <= MaxPayload(last.pre, ToLower(last.req.PushData.Platform))
    /\ HasSubstring(ErrorString(last.err), "payload too large")
    /\ push = last.pre

(***************************************************************************)
(* The SMS provider's supported countries.                                 *)
(***************************************************************************)
\* a number whose ten digits fit the length rule of every listed country
AnyCountryNumber == "1234567890"

\* C29: for every non-empty country code, GetSMSCost succeeds exactly when
\* ValidatePhoneNumber accepts the code with a number valid in it, and
\* exactly when GetSupportedCountries lists the code.
C29_SupportedCountriesAgree ==
    (last.op = "GetSMSCost" /\ last.req # "") =>
        LET priced == ~IsError(last.err)
            accepted == ~IsError(MockSMSProvider_ValidatePhoneNumber(AnyCountryNumber,
                                                                     last.req))
            listed == ToUpper(last.req) \in GetSupportedCountries
        IN  /\ priced <=> accepted
            /\ accepted <=> listed

(***************************************************************************)
(* Retry scheduling.  A time.Duration is an int64 of nanoseconds, kept in  *)
(* two's complement as four 16-bit limbs, the least significant first.     *)
(***************************************************************************)
\* the duration of n nanoseconds, 0 <= n < 2^31
Nanoseconds(n) == <<n % 65536, n \div 65536, 0, 0>>

\* a + b of int64, wrapping modulo 2^64
AddDuration(a, b) ==
    LET s1 == a[1] + b[1]
        s2 == a[2] + b[2] + s1 \div 65536
        s3 == a[3] + b[3] + s2 \div 65536
        s4 == a[4] + b[4] + s3 \div 65536
    IN  <<s1 % 65536, s2 % 65536, s3 % 65536, s4 % 65536>>

RECURSIVE MulDuration(_, _)
\* d * k of int64 for a small k >= 0, by the binary digits of k
MulDuration(d, k) ==
    IF k = 0 THEN Nanoseconds(0)
    ELSE \* the product with k \div 2 is evaluated once
         LET half == CHOOSE h \in {MulDuration(d, k \div 2)} : TRUE
             even == AddDuration(half, half)
         IN  IF k % 2 = 1 THEN AddDuration(even, d) ELSE even

\* the sign bit of an int64
IsNegative(d) == d[4] >= 32768

\* a < b of int64
LessDuration(a, b) ==
    IF IsNegative(a) # IsNegative(b) THEN IsNegative(a)
    ELSE \E i \in 1..4 : a[i] < b[i] /\ \A j \in (i + 1)..4 : a[j] = b[j]

MinDuration(a, b) == IF LessDuration(b, a) THEN b ELSE a

\* time.Millisecond, time.Second, time.Minute, time.Hour
Millisecond == Nanoseconds(1000000)
Second == Nanoseconds(1000000000)
Minute == MulDuration(Second, 60)
Hour == MulDuration(Minute, 60)

RECURSIVE DoubledDelay(_, _)
\* for i := 0; i < n; i++ { delay *= 2 }: the first n \div 2 iterations of
\* the loop, then the others
DoubledDelay(delay, n) ==
    IF n <= 0 THEN delay
    ELSE IF n = 1 THEN AddDuration(delay, delay)
    ELSE CHOOSE d \in { DoubledDelay(half, n - n \div 2) :
                          half \in {DoubledDelay(delay, n \div 2)} } : TRUE

\* utils.CalculateNextRetryTime: time.Now(), read as t, plus the delay
CalculateNextRetryTime(retryCount, baseDelay, t) ==
    LET delay == DoubledDelay(baseDelay, retryCount)
    IN  [kind |-> "Time", now |-> t,
         delay |-> IF LessDuration(Hour, delay) THEN Hour ELSE delay]

\* retry counts are explored up to the width of an int64 and one past it
MaxRetryCount == 65

RetryCounts == 0..MaxRetryCount

BaseDelays == {Nanoseconds(1), Millisecond, Second, MulDuration(Second, 30), Minute,
               Hour, MulDuration(Hour, 2)}

CallCalculateNextRetryTime ==
    /\ Idle
    /\ \E retryCount \in RetryCounts, baseDelay \in BaseDelays, t \in Times :
         /\ last' = Ran("CalculateNextRetryTime",
                        [retryCount |-> retryCount, baseDelay |-> baseDelay],
                        NoCancel, Provider,
                        ServiceResult(Result(Provider, NoCancel,
                                             CalculateNextRetryTime(retryCount, baseDelay, t),
                                             NilError),
                                      << >>, 0, NoNotification))
         /\ now' = t
         /\ UNCHANGED <<channel, email, sms, push, sends>>

BackoffNext ==
    \/ CallCalculateNextRetryTime
    \/ Return

BackoffSpec == Init /\ [][BackoffNext]_vars

RECURSIVE CappedBackoff(_, _)
\* min(baseDelay * 2^retryCount, 1 hour) of the integers, by halves of
\* retryCount: no value on the way exceeds two hours, so nothing wraps
CappedBackoff(retryCount, baseDelay) ==
    LET capped == MinDuration(baseDelay, Hour) IN
    IF retryCount = 0 THEN capped
    ELSE IF retryCount = 1 THEN MinDuration(AddDuration(capped, capped), Hour)
    ELSE CHOOSE d \in { CappedBackoff(retryCount - retryCount \div 2, half) :
                          half \in {CappedBackoff(retryCount \div 2, baseDelay)} } : TRUE

\* C30: for every retryCount >= 0 and every positive baseDelay the retry is
\* scheduled at now + min(baseDelay * 2^retryCount, 1 hour); the delay is
\* never negative, never below min(baseDelay, 1 hour), never above 1 hour,
\* and not smaller than the delay of the retry count before.
C30_CappedExponentialBackoff ==
    last.op = "CalculateNextRetryTime" =>
        LET retryCount == last.req.retryCount
            baseDelay == last.req.baseDelay
            delay == last.resp.delay
        IN  /\ last.resp.now = now
            /\ delay = CappedBackoff(retryCount, baseDelay)
            /\ ~IsNegative(delay)
            /\ ~LessDuration(delay, MinDuration(baseDelay, Hour))
            /\ ~LessDuration(Hour, delay)
            /\ retryCount > 0 =>
                  ~LessDuration(delay,
                                CalculateNextRetryTime(retryCount - 1, baseDelay, now).delay)
=============================================================================
